---------------------------- MODULE Spec2Model ----------------------------
(***************************************************************************)
(* Transcript normalisation pipeline of podcaster-blaster                  *)
(* (backend/src/services/transcriptService.ts).                            *)
(*                                                                         *)
(*   Spec       the Source Orchestrator, TranscriptService.getTranscript:  *)
(*              one request, its three extraction methods and its result.  *)
(*   SpecDedup  the Segment Deduplicator, deduplicateTranscript, run loop  *)
(*              iteration by loop iteration over every bounded input.      *)
(*                                                                         *)
(*   SpecParse  the Format Parsers, parseVttContent, parseSrtContent and   *)
(*              parseXmlSubtitles: one call of a parser on one payload.    *)
(*   SpecDisplay     formatTranscriptForDisplay on one transcript.         *)
(*   SpecSimilarity  the closure similarity on one pair of texts.          *)
(*   SpecYtDlp  tryYtDlp and the temp directory, two requests at a time.   *)
(*   SpecApi    POST /api/analyze (backend/src/index.ts): one request,     *)
(*              getTranscript and the two calls of the AI service.         *)
(*   SpecHistory     the stored history of the frontend                    *)
(*              (frontend/src/utils/historyStorage.ts).                    *)
(*                                                                         *)
(* In Spec and SpecDedup times are whole seconds.  A text is a sequence of *)
(* one-character strings, so that length, case folding, splitting and      *)
(* number parsing are computed as the code computes them.  A similarity is *)
(* the fraction <<numerator, denominator>>; comparisons with 0.7 are       *)
(* exact.  The numbers the parsers compute are binary64 values.            *)
(***************************************************************************)
EXTENDS Integers, Sequences, FiniteSets, TLC

(***************************************************************************)
(* Bounds of the model.                                                    *)
(***************************************************************************)
\* longest raw segment sequence handed to the deduplicator
MaxSegs == 3
\* largest start offset (seconds) of a raw segment
MaxStart == 2
\* longest segment sequence an upstream caption source delivers
MaxUpstream == 2

(***************************************************************************)
(* Texts.                                                                  *)
(***************************************************************************)
Range(s) == { s[k] : k \in 1..Len(s) }

Abs(x) == IF x < 0 THEN -x ELSE x

\* the text whose words are the given one-letter words, single-spaced
RECURSIVE Spaced(_)
Spaced(letters) ==
    IF Len(letters) = 0 THEN << >>
    ELSE IF Len(letters) = 1 THEN << letters[1] >>
    ELSE << letters[1], " " >> \o Spaced(Tail(letters))

Text7 == Spaced(<< "a", "b", "c", "d", "e", "f", "g" >>)
Text10 == Spaced(<< "a", "b", "c", "d", "e", "f", "g", "h", "i", "j" >>)
Text8Upper == Spaced(<< "A", "b", "c", "d", "e", "f", "g", "h" >>)
TextX == << "x" >>
TextY == << "y" >>

\* texts of raw segments: Text7/Text10 have similarity exactly 7/10,
\* Text7/Text8Upper 7/8 and Text8Upper/Text10 8/10 after case folding,
\* TextX and TextY share no word with any other text
Texts == { Text7, Text10, Text8Upper, TextX, TextY }

\* String.prototype.toLowerCase, character by character
LowerChar(c) ==
    CASE c = "A" -> "a"
      [] c = "B" -> "b"
      [] c = "X" -> "x"
      [] c = "Y" -> "y"
      [] OTHER -> c

toLowerCase(t) == [ k \in 1..Len(t) |-> LowerChar(t[k]) ]

\* the characters the regular expression class \s matches
IsSpace(c) == c \in { " ", "\t", "\n" }

\* index of the first non-whitespace character at or after k (Len(t)+1 if none)
RECURSIVE SkipSpaces(_, _)
SkipSpaces(t, k) ==
    IF k > Len(t) \/ ~IsSpace(t[k]) THEN k ELSE SkipSpaces(t, k + 1)

\* String.prototype.split(/\s+/): the pieces between maximal whitespace
\* runs; a leading or trailing run leaves an empty piece and the empty
\* text splits into one empty piece
RECURSIVE SplitFrom(_, _, _)
SplitFrom(t, k, word) ==
    IF k > Len(t) THEN << word >>
    ELSE IF IsSpace(t[k])
         THEN << word >> \o SplitFrom(t, SkipSpaces(t, k), << >>)
         ELSE SplitFrom(t, k + 1, Append(word, t[k]))

splitWhitespace(t) == SplitFrom(t, 1, << >>)


(***************************************************************************)
(* Segments (interface TranscriptSegment).                                 *)
(***************************************************************************)
\* the duration every raw segment of the model carries (seconds)
Durations == { 3 }

RawSegments ==
    [ text : Texts, start : 0..MaxStart, duration : Durations ]

\* all sequences over S of length at most n
SeqsUpTo(S, n) == UNION { [ 1..k -> S ] : k \in 0..n }

\* the raw segment sequences handed to deduplicateTranscript
RawInputs == SeqsUpTo(RawSegments, MaxSegs)

\* placeholder of a local variable that has not been assigned yet
NoSegment == [ text |-> << >>, start |-> 0, duration |-> 0 ]

(***************************************************************************)
(* deduplicateTranscript.                                                  *)
(***************************************************************************)
\* the threshold 0.7 of the merge rule, as the fraction 7/10
SimThresholdNum == 7
SimThresholdDen == 10
\* the temporal window of the merge rule, in seconds
MergeWindow == 2

\* the closure `similarity`: Jaccard index of the two lower-cased word sets
similarity(a, b) ==
    LET wordsA == Range(splitWhitespace(toLowerCase(a)))
        wordsB == Range(splitWhitespace(toLowerCase(b)))
        intersection == { x \in wordsA : x \in wordsB }
        union == wordsA \cup wordsB
    IN  IF Cardinality(union) = 0
        THEN << 0, 1 >>
        ELSE << Cardinality(intersection), Cardinality(union) >>

\* similarity, evaluated once for every pair of texts of the model
SimilarityOf == [ a \in Texts |-> [ b \in Texts |-> similarity(a, b) ] ]

\* fraction f > 0.7
ExceedsThreshold(f) == f[1] * SimThresholdDen > SimThresholdNum * f[2]

\* faulty variant: the two triggers joined by && instead of ||
ShouldMergeBoth(cur, next) ==
    /\ ExceedsThreshold(SimilarityOf[cur.text][next.text])
    /\ Abs(next.start - cur.start) < MergeWindow

\* faulty variant: inclusive comparisons (>= 0.7, <= 2)
ShouldMergeInclusive(cur, next) ==
    LET f == SimilarityOf[cur.text][next.text]
    IN  \/ f[1] * SimThresholdDen >= SimThresholdNum * f[2]
        \/ Abs(next.start - cur.start) <= MergeWindow

\* the condition of the merge rule: textSimilarity > 0.7 || timeDiff < 2
ShouldMerge(cur, next) ==
    LET textSimilarity == SimilarityOf[cur.text][next.text]
        timeDiff == Abs(next.start - cur.start)
    IN  ExceedsThreshold(textSimilarity) \/ timeDiff < MergeWindow

\* faulty variant: the survivor is current with the longer text put in
KeepLongerMerged(cur, next) ==
    IF Len(next.text) > Len(cur.text)
    THEN [ cur EXCEPT !.text = next.text ]
    ELSE cur

\* faulty variant: next replaces current on equal length too (>= instead of >)
KeepLongerOrEqual(cur, next) ==
    IF Len(next.text) >= Len(cur.text) THEN next ELSE cur

\* the survivor of a merge: next only if its text is strictly longer
KeepLonger(cur, next) ==
    IF Len(next.text) > Len(cur.text) THEN next ELSE cur

\* faulty variant: a non-merge starts the output over instead of appending
LoopBodyRestart(st, nextSegment) ==
    IF ShouldMerge(st.currentSegment, nextSegment)
    THEN [ st EXCEPT !.currentSegment = KeepLonger(@, nextSegment) ]
    ELSE [ currentSegment |-> nextSegment,
           deduplicated |-> << st.currentSegment >> ]

\* one iteration of the for loop on the accumulator
\* st = [currentSegment, deduplicated]
LoopBody(st, nextSegment) ==
    IF ShouldMerge(st.currentSegment, nextSegment)
    THEN [ st EXCEPT !.currentSegment = KeepLonger(@, nextSegment) ]
    ELSE [ currentSegment |-> nextSegment,
           deduplicated |-> Append(st.deduplicated, st.currentSegment) ]

\* the accumulator after the iterations k..Len(segs)
RECURSIVE LoopFrom(_, _, _)
LoopFrom(st, segs, k) ==
    IF k > Len(segs) THEN st
    ELSE LoopFrom(LoopBody(st, segs[k]), segs, k + 1)

\* faulty variant: the final current is put in front of the output (unshift)
deduplicateTranscriptUnshift(segs) ==
    IF Len(segs) = 0 THEN segs
    ELSE LET st == LoopFrom([ currentSegment |-> segs[1],
                              deduplicated |-> << >> ], segs, 2)
         IN  << st.currentSegment >> \o st.deduplicated

\* the whole function, on a value
deduplicateTranscript(segs) ==
    IF Len(segs) = 0 THEN segs
    ELSE LET st == LoopFrom([ currentSegment |-> segs[1],
                              deduplicated |-> << >> ], segs, 2)
         IN  Append(st.deduplicated, st.currentSegment)

(***************************************************************************)
(* State.                                                                  *)
(***************************************************************************)
VARIABLES
    \* deduplicateTranscript: parameter, loop index (1-based), locals,
    \* position and returned value
    segments, i, currentSegment, deduplicated, dpc, dresult,
    \* getTranscript: position, parameter, locals, environment
    pc, url, videoId, ytdlpPath, transcript,
    \* getTranscript: what it produced (returned value, thrown message)
    result, error,
    \* getTranscript: record of the run (methods started, methods whose
    \* promise is pending, how each settled, method named by the success log)
    invoked, running, attempts, adopted,
    \* the format parsers: the payload handed to the parser (the content of
    \* a subtitle file or caption document), its format, the position of the
    \* call and the returned segments; source records the lines, or the
    \* <text> records, the payload was written from
    payload, source, format, ppc, parsed,
    \* formatTranscriptForDisplay: the transcript passed, the text returned
    shown, display,
    \* the closure similarity: its two arguments, the value returned
    textA, textB, jaccard,
    \* tryYtDlp, two requests side by side: the files of the temp
    \* directory; per request its position, its video identifier, what it
    \* returned or threw, and the files it read and removed
    tempDir, ypc, yvideo, youtcome, ytouched,
    \* POST /api/analyze: position, the locals aiAnalysis, socialPosts and
    \* aiError, the response sent; aiFailed records the statement of the
    \* inner try block that threw
    apc, aiAnalysis, socialPosts, aiError, response, aiFailed,
    \* historyStorage: the value under STORAGE_KEY (present or not, and the
    \* list it holds), the item written by the latest save that reached
    \* localStorage.setItem (id 0 before the first), the calls made
    stored, lastSaved, calls

dedupVars == << segments, i, currentSegment, deduplicated, dpc, dresult >>

orchVars == << pc, url, videoId, ytdlpPath, transcript, result, error,
               invoked, running, attempts, adopted >>

parseVars == << payload, source, format, ppc, parsed >>

viewVars == << shown, display >>

simVars == << textA, textB, jaccard >>

ytdlpVars == << tempDir, ypc, yvideo, youtcome, ytouched >>

apiVars == << apc, aiAnalysis, socialPosts, aiError, response, aiFailed >>

histVars == << stored, lastSaved, calls >>

extVars == << viewVars, simVars, ytdlpVars, apiVars, histVars >>

vars == << dedupVars, orchVars, parseVars, extVars >>

\* absent value (null / undefined)
Null == "null"

\* no parser has been called
ParseIdle ==
    /\ payload = << >>
    /\ source = << >>
    /\ format = Null
    /\ ppc = "idle"
    /\ parsed = << >>

\* nothing outside `group` has been called: no formatter, no similarity, no
\* yt-dlp request, no API request, nothing stored
ExtIdleExcept(group) ==
    /\ IF group = "view" THEN TRUE
       ELSE shown = << >> /\ display = Null
    /\ IF group = "sim" THEN TRUE
       ELSE textA = << >> /\ textB = << >> /\ jaccard = Null
    /\ IF group = "ytdlp" THEN TRUE
       ELSE /\ tempDir = {}
            /\ ypc = << >>
            /\ yvideo = << >>
            /\ youtcome = << >>
            /\ ytouched = << >>
    /\ IF group = "api" THEN TRUE
       ELSE /\ apc = "idle"
            /\ aiAnalysis = Null
            /\ socialPosts = Null
            /\ aiError = Null
            /\ response = Null
            /\ aiFailed = Null
    /\ IF group = "hist" THEN TRUE
       ELSE /\ stored = [ present |-> FALSE, items |-> << >> ]
            /\ lastSaved = [ id |-> 0, videoId |-> 0 ]
            /\ calls = 0

(***************************************************************************)
(* deduplicateTranscript, statement by statement.                          *)
(***************************************************************************)
DedupIdle ==
    /\ segments = << >>
    /\ i = 0
    /\ currentSegment = NoSegment
    /\ deduplicated = << >>
    /\ dpc = "idle"
    /\ dresult = << >>

\* entry: the early return on the empty input, else the seeding of the
\* accumulator with segments[0]
DedupEnter ==
    /\ dpc = "call"
    /\ IF Len(segments) = 0
       THEN /\ dresult' = segments
            /\ dpc' = "done"
            /\ UNCHANGED << i, currentSegment, deduplicated >>
       ELSE /\ currentSegment' = segments[1]
            /\ deduplicated' = << >>
            /\ i' = 2
            /\ dpc' = "loop"
            /\ UNCHANGED dresult
    /\ UNCHANGED << segments, orchVars, parseVars, extVars >>

\* one iteration of the for loop
DedupLoop ==
    /\ dpc = "loop"
    /\ i <= Len(segments)
    /\ LET st == LoopBody([ currentSegment |-> currentSegment,
                            deduplicated |-> deduplicated ], segments[i])
       IN  /\ currentSegment' = st.currentSegment
           /\ deduplicated' = st.deduplicated
    /\ i' = i + 1
    /\ UNCHANGED << segments, dpc, dresult, orchVars, parseVars, extVars >>

\* loop exit: the final current is appended and the output returned
DedupExit ==
    /\ dpc = "loop"
    /\ i > Len(segments)
    /\ deduplicated' = Append(deduplicated, currentSegment)
    /\ dresult' = deduplicated'
    /\ dpc' = "done"
    /\ UNCHANGED << segments, i, currentSegment, orchVars, parseVars, extVars >>

(***************************************************************************)
(* getTranscript: inputs.                                                  *)
(***************************************************************************)
Urls ==
    { "https://www.youtube.com/watch?v=vid1",
      "https://youtu.be/vid2",
      "https://example.com/watch?v=vid1",
      "vid1" }

\* extractVideoId on the URLs of the model: the first capture group of the
\* first matching pattern, null when neither pattern matches
extractVideoId(u) ==
    CASE u = "https://www.youtube.com/watch?v=vid1" -> "vid1"
      [] u = "https://youtu.be/vid2" -> "vid2"
      [] OTHER -> Null

\* the three extraction methods, in the order getTranscript tries them
Methods == << "ytdl-core", "youtube-transcript", "yt-dlp" >>

InvalidUrlMessage == "Invalid YouTube URL"

NoTranscriptMessage ==
    "No transcript available for this video. The video may not have captions enabled."

\* segment sequences an upstream caption source can deliver
UpstreamSegs == SeqsUpTo(RawSegments, MaxUpstream)

\* what ytdl.getInfo / fetch / parseXmlSubtitles yield: a rejection, no
\* caption track, or a track whose XML parses to `parsed`
YtdlCoreUpstream ==
    { [ kind |-> k, parsed |-> << >> ] : k \in { "getInfoError", "noTracks" } }
        \cup { [ kind |-> "xml", parsed |-> p ] : p \in UpstreamSegs }

\* items of YoutubeTranscript.fetchTranscript: offset and duration in
\* milliseconds, duration 0 standing for a missing duration
UpstreamItems ==
    [ text : Texts, offset : { 1000 * t : t \in 0..MaxStart },
      duration : { 0, 3000 } ]

YoutubeTranscriptUpstream ==
    { [ kind |-> "fetchError", items |-> << >> ] }
        \cup { [ kind |-> "items", items |-> q ] :
                 q \in SeqsUpTo(UpstreamItems, MaxUpstream) }

\* what the yt-dlp process and the temp directory yield: a failed process,
\* no subtitle file, or a subtitle file that parses to `parsed`
YtDlpUpstream ==
    { [ kind |-> k, parsed |-> << >> ] : k \in { "execError", "noFile" } }
        \cup { [ kind |-> k, parsed |-> p ] :
                 k \in { "vtt", "srt" }, p \in UpstreamSegs }

(***************************************************************************)
(* The extraction methods: the value they resolve with, or the rejection.  *)
(***************************************************************************)
Rejected(message) == [ threw |-> TRUE, message |-> message, segments |-> << >> ]

Resolved(segs) == [ threw |-> FALSE, message |-> "", segments |-> segs ]

tryYtdlCore(up) ==
    CASE up.kind = "getInfoError" -> Rejected("Video unavailable")
      [] up.kind = "noTracks" -> Rejected("No subtitle tracks found")
      [] OTHER ->
            IF Len(up.parsed) = 0
            THEN Rejected("Failed to parse subtitle content")
            ELSE Resolved(up.parsed)

tryYoutubeTranscript(up) ==
    IF up.kind = "fetchError"
    THEN Rejected("Transcript is disabled on this video")
    ELSE Resolved([ k \in 1..Len(up.items) |->
            [ text |-> up.items[k].text,
              start |-> up.items[k].offset \div 1000,
              duration |-> IF up.items[k].duration # 0
                           THEN up.items[k].duration \div 1000
                           ELSE 3 ] ])

tryYtDlp(up) ==
    CASE up.kind = "execError" -> Rejected("yt-dlp failed: Command failed")
      [] up.kind = "noFile" -> Rejected("yt-dlp failed: No subtitle file found")
      [] OTHER -> Resolved(up.parsed)

(***************************************************************************)
(* getTranscript.                                                          *)
(***************************************************************************)
NoResult == [ id |-> Null, url |-> Null, transcript |-> << >> ]

OrchIdle ==
    /\ pc = "idle"
    /\ url = Null
    /\ videoId = Null
    /\ transcript = << >>
    /\ result = NoResult
    /\ error = Null
    /\ invoked = << >>
    /\ running = { }
    /\ attempts = << >>
    /\ adopted = Null

\* faulty variant: the raw segments are returned without deduplication
VideoInfoRaw(id, u, segs) ==
    [ id |-> id, url |-> u, transcript |-> segs ]

\* the object literal of each return statement
VideoInfo(id, u, segs) ==
    [ id |-> id, url |-> u, transcript |-> deduplicateTranscript(segs) ]

\* faulty variant: an empty result counts as a success (>= 0)
HasSegmentsOrEmpty(t) == Len(t) >= 0

\* the test `transcript.length > 0` after each await
HasSegments(t) == Len(t) > 0

\* faulty variant: the next method is started while the previous promise
\* is still pending
PendingNoAwait(pending, settled, started) == pending \cup { started }

\* the pending methods once `settled` has settled and `started` is called
Pending(pending, settled, started) ==
    (pending \ { settled }) \cup { started }

\* the call of method m and the await of its promise
StartMethod(settled, m) ==
    /\ pc' = m
    /\ invoked' = Append(invoked, m)
    /\ running' = Pending(running, settled, m)
    /\ UNCHANGED << result, error, adopted >>

\* return { id, url, transcript: deduplicateTranscript(transcript) }
ReturnVideoInfo(m, segs) ==
    /\ pc' = "returned"
    /\ adopted' = m
    /\ result' = VideoInfo(videoId, url, segs)
    /\ running' = running \ { m }
    /\ UNCHANGED << error, invoked >>

Throw(settled, message) ==
    /\ pc' = "thrown"
    /\ error' = message
    /\ running' = running \ { settled }
    /\ UNCHANGED << result, invoked, adopted >>

\* what follows the try block of method m when it did not return
FallThrough(m) ==
    CASE m = "ytdl-core" -> StartMethod(m, "youtube-transcript")
      [] m = "youtube-transcript" ->
            IF ytdlpPath
            THEN StartMethod(m, "yt-dlp")
            ELSE Throw(m, NoTranscriptMessage)
      [] OTHER -> Throw(m, NoTranscriptMessage)

\* faulty variant: the catch block rethrows the method's error
CatchRethrow(m, message) == Throw(m, message)

\* the catch block of method m: the error is logged and dropped
Catch(m, message) == FallThrough(m)

OutcomeOf(r) ==
    IF r.threw THEN "threw"
    ELSE IF Len(r.segments) = 0 THEN "empty" ELSE "segments"

\* the continuation of getTranscript once the promise of method m has
\* settled with r
Settled(m, r) ==
    /\ attempts' = Append(attempts, [ method |-> m, outcome |-> OutcomeOf(r) ])
    /\ IF r.threw
       THEN /\ UNCHANGED transcript
            /\ Catch(m, r.message)
       ELSE /\ transcript' = r.segments
            /\ IF HasSegments(r.segments)
               THEN ReturnVideoInfo(m, r.segments)
               ELSE FallThrough(m)
    /\ UNCHANGED << url, videoId, ytdlpPath, dedupVars, parseVars, extVars >>

\* the call: validation of the URL, then method 1 is started
GetTranscript ==
    /\ pc = "idle"
    /\ \E u \in Urls :
        /\ url' = u
        /\ videoId' = extractVideoId(u)
        /\ IF videoId' = Null
           THEN Throw(Null, InvalidUrlMessage)
           ELSE StartMethod(Null, "ytdl-core")
    /\ UNCHANGED << ytdlpPath, transcript, attempts, dedupVars, parseVars, extVars >>

YtdlCoreSettled ==
    /\ pc = "ytdl-core"
    /\ \E up \in YtdlCoreUpstream : Settled("ytdl-core", tryYtdlCore(up))

YoutubeTranscriptSettled ==
    /\ pc = "youtube-transcript"
    /\ \E up \in YoutubeTranscriptUpstream :
        Settled("youtube-transcript", tryYoutubeTranscript(up))

YtDlpSettled ==
    /\ pc = "yt-dlp"
    /\ \E up \in YtDlpUpstream : Settled("yt-dlp", tryYtDlp(up))

(***************************************************************************)
(* Specifications.                                                         *)
(***************************************************************************)
Init ==
    /\ OrchIdle
    /\ ytdlpPath \in BOOLEAN
    /\ DedupIdle
    /\ ParseIdle
    /\ ExtIdleExcept("none")

Next ==
    \/ GetTranscript
    \/ YtdlCoreSettled
    \/ YoutubeTranscriptSettled
    \/ YtDlpSettled

Spec == Init /\ [][Next]_vars

InitDedup ==
    /\ OrchIdle
    /\ ytdlpPath = FALSE
    /\ segments \in RawInputs
    /\ i = 0
    /\ currentSegment = NoSegment
    /\ deduplicated = << >>
    /\ dpc = "call"
    /\ dresult = << >>
    /\ ParseIdle
    /\ ExtIdleExcept("none")

NextDedup ==
    \/ DedupEnter
    \/ DedupLoop
    \/ DedupExit

SpecDedup == InitDedup /\ [][NextDedup]_vars

(***************************************************************************)
(* Properties of getTranscript (checked under Spec).                       *)
(***************************************************************************)
\* the run in which method 1 threw, method 2 resolved with zero segments
\* and method 3 resolved with at least one segment
FallbackScenario ==
    /\ pc = "returned"
    /\ Len(attempts) = 3
    /\ attempts[1] = [ method |-> "ytdl-core", outcome |-> "threw" ]
    /\ attempts[2] = [ method |-> "youtube-transcript", outcome |-> "empty" ]
    /\ attempts[3] = [ method |-> "yt-dlp", outcome |-> "segments" ]

AllMethodsFailed ==
    /\ Len(attempts) = (IF ytdlpPath THEN 3 ELSE 2)
    /\ \A k \in 1..Len(attempts) : attempts[k].outcome \in { "threw", "empty" }

\* C3: when every configured method threw or produced zero segments,
\* getTranscript fails with the one terminal error; it never returns a
\* transcript with an empty segment list.
C3_TerminalError ==
    /\ AllMethodsFailed =>
        /\ pc = "thrown"
        /\ error = NoTranscriptMessage
        /\ result = NoResult
    /\ pc = "returned" => Len(result.transcript) > 0

\* C3 witness: three methods exhausted, the second with zero segments
C3_Witness ==
    /\ AllMethodsFailed
    /\ ytdlpPath
    /\ attempts[2].outcome = "empty"
    /\ pc = "thrown"

\* C4: no error thrown inside an extraction method reaches the caller:
\* after a method threw, the next method was started or the call ended
\* with the terminal error, and the only errors getTranscript throws are
\* the invalid-URL error and the terminal no-transcript error.
C4_NoMethodErrorEscapes ==
    /\ pc = "thrown" =>
        /\ error \in { InvalidUrlMessage, NoTranscriptMessage }
        /\ error = InvalidUrlMessage <=> videoId = Null
    /\ \A k \in 1..Len(attempts) :
        attempts[k].outcome = "threw" =>
            \/ Len(invoked) > k
            \/ pc = "thrown" /\ error = NoTranscriptMessage

\* C4 witness: all three methods threw and the call ended
C4_Witness ==
    /\ Len(attempts) = 3
    /\ \A k \in 1..3 : attempts[k].outcome = "threw"
    /\ pc = "thrown"

IsSorted(segs) ==
    \A k \in 1..(Len(segs) - 1) : segs[k].start <= segs[k + 1].start

\* C7 as stated: every returned transcript is sorted ascending by start,
\* whichever method produced the raw segments.
C7_AlwaysSorted ==
    pc = "returned" => IsSorted(result.transcript)

\* C7 amended: a returned transcript is sorted ascending by start provided
\* the raw segments of the adopted method were; getTranscript never sorts.
C7_SortedIfRawSorted ==
    (pc = "returned" /\ IsSorted(transcript)) => IsSorted(result.transcript)

\* C7 witness: a sorted raw sequence returned with two segments kept
C7_Witness ==
    /\ pc = "returned"
    /\ IsSorted(transcript)
    /\ Len(result.transcript) = 2
    /\ result.transcript[1].start < result.transcript[2].start

(***************************************************************************)
(* Properties of deduplicateTranscript (checked under SpecDedup).          *)
(***************************************************************************)
\* a step of the for loop is being taken on nextSegment = segments[i]
LoopIteration == dpc = "loop" /\ i <= Len(segments) /\ i' = i + 1

SimilarityToNext == SimilarityOf[currentSegment.text][segments[i].text]

TimeDiffToNext == Abs(segments[i].start - currentSegment.start)

MaxOf(a, b) == IF a >= b THEN a ELSE b

\* C5 as stated, on the time-ordered raw sequences the deduplicator is
\* meant for: deduplicating the deduplicator's own output changes nothing.
C5_Idempotent ==
    (dpc = "done" /\ IsSorted(segments)) =>
        deduplicateTranscript(dresult) = dresult

\* C6 as stated, on the time-ordered raw sequences the deduplicator is
\* meant for: no two entries of the deduplicator's output have a text
\* similarity above 0.7.
C6_NoSimilarEntries ==
    (dpc = "done" /\ IsSorted(segments)) =>
        \A a, b \in 1..Len(dresult) :
            a < b =>
                ~ExceedsThreshold(SimilarityOf[dresult[a].text][dresult[b].text])

\* C8: when the similarity of current and next is above 0.7, whatever the
\* two start times, the pair merges (nothing is appended to the output)
\* and the survivor is the one of the two with the longer text.
C8_SimilarityMerge ==
    [][ (LoopIteration /\ ExceedsThreshold(SimilarityToNext)) =>
            /\ deduplicated' = deduplicated
            /\ currentSegment' \in { currentSegment, segments[i] }
            /\ Len(currentSegment'.text) =
                   MaxOf(Len(currentSegment.text), Len(segments[i].text)) ]_vars

\* C8 witness: the first two segments, two or more seconds apart, merged
\* by similarity into the longer second one
C8_Witness ==
    /\ dpc = "loop"
    /\ i = 3
    /\ ExceedsThreshold(SimilarityOf[segments[1].text][segments[2].text])
    /\ Abs(segments[2].start - segments[1].start) >= MergeWindow
    /\ Len(segments[2].text) > Len(segments[1].text)
    /\ currentSegment = segments[2]
    /\ deduplicated = << >>

\* C9: when next starts less than 2 seconds from current, the pair merges
\* even with disjoint word sets; next replaces current only if its text is
\* strictly longer, current is kept on equal length, and the survivor is
\* one of the two segments unchanged.
C9_TemporalMerge ==
    [][ (LoopIteration /\ TimeDiffToNext < MergeWindow) =>
            /\ deduplicated' = deduplicated
            /\ currentSegment' =
                   IF Len(segments[i].text) > Len(currentSegment.text)
                   THEN segments[i]
                   ELSE currentSegment ]_vars

\* C9 witness: two segments one second apart with no common word and
\* equally long texts; the first one is kept
C9_Witness ==
    /\ dpc = "loop"
    /\ i = 3
    /\ SimilarityOf[segments[1].text][segments[2].text][1] = 0
    /\ Abs(segments[2].start - segments[1].start) = 1
    /\ Len(segments[2].text) = Len(segments[1].text)
    /\ segments[2] # segments[1]
    /\ currentSegment = segments[1]
    /\ deduplicated = << >>

\* C10: when the similarity is at most 0.7 and the start times are at
\* least 2 seconds apart, current is appended to the output unchanged and
\* next becomes current; at the end of the input the final current is
\* appended.
C10_NonMerge ==
    [][ /\ (LoopIteration /\ ~ExceedsThreshold(SimilarityToNext)
                          /\ TimeDiffToNext >= MergeWindow) =>
                /\ deduplicated' = Append(deduplicated, currentSegment)
                /\ currentSegment' = segments[i]
        /\ (dpc = "loop" /\ dpc' = "done") =>
                /\ i > Len(segments)
                /\ dresult' = Append(deduplicated, currentSegment) ]_vars

\* C10 witness: similarity exactly 7/10 and starts exactly 2 seconds
\* apart; both segments are in the returned output
C10_Witness ==
    /\ dpc = "done"
    /\ Len(segments) = 2
    /\ LET f == SimilarityOf[segments[1].text][segments[2].text]
       IN  f[1] * SimThresholdDen = SimThresholdNum * f[2]
    /\ Abs(segments[2].start - segments[1].start) = MergeWindow
    /\ dresult = segments

(***************************************************************************)
(* Numbers of the parsers.  A JavaScript number is NaN or a binary64       *)
(* value, kept exactly: sign, integer part and the bits of the fraction    *)
(* (most significant first, no trailing zero).  Every operation rounds to  *)
(* 53 significant bits, nearest, ties to even, as the arithmetic of the    *)
(* language does, so that 1 + 118/1000 and 1.118 are different numbers.    *)
(* The timestamps and attributes of the payloads carry no sign, so the     *)
(* operands are NaN or >= 0; only a difference can be negative.            *)
(***************************************************************************)
\* significant bits of a number (binary64)
MantissaBits == 53

NaN == [ nan |-> TRUE, neg |-> FALSE, int |-> 0, frac |-> << >> ]

\* the number n, for an integer n
IntNum(n) == [ nan |-> FALSE, neg |-> n < 0, int |-> Abs(n), frac |-> << >> ]

First(S) == CHOOSE m \in S : \A x \in S : m <= x
Last(S) == CHOOSE m \in S : \A x \in S : x <= m

RECURSIVE BitLen(_)
BitLen(n) == IF n = 0 THEN 0 ELSE 1 + BitLen(n \div 2)

\* f without its trailing zeros
StripZeros(f) ==
    LET ones == { k \in 1..Len(f) : f[k] = 1 }
    IN  IF ones = {} THEN << >> ELSE SubSeq(f, 1, Last(ones))

LeadingZeros(f) ==
    LET ones == { k \in 1..Len(f) : f[k] = 1 }
    IN  IF ones = {} THEN Len(f) ELSE First(ones) - 1

\* f plus one unit in its last place: the bits and the carry out of them
IncBits(f) ==
    LET zeros == { k \in 1..Len(f) : f[k] = 0 }
    IN  IF zeros = {}
        THEN [ carry |-> 1, bits |-> [ k \in 1..Len(f) |-> 0 ] ]
        ELSE [ carry |-> 0,
               bits |-> [ k \in 1..Len(f) |->
                            IF k < Last(zeros) THEN f[k]
                            ELSE IF k = Last(zeros) THEN 1 ELSE 0 ] ]

\* the number nearest to n + 0.f (+ something below the last bit of f when
\* sticky), n >= 0: round to nearest, ties to even
RoundBits(n, f, sticky) ==
    LET keep == IF n > 0 THEN MantissaBits - BitLen(n)
                         ELSE LeadingZeros(f) + MantissaBits
    IN  IF Len(f) <= keep
        THEN [ nan |-> FALSE, neg |-> FALSE, int |-> n, frac |-> StripZeros(f) ]
        ELSE LET kept == SubSeq(f, 1, keep)
                 rest == sticky \/ \E k \in (keep + 2)..Len(f) : f[k] = 1
                 lsb == IF keep = 0 THEN n % 2 ELSE kept[keep]
                 up == f[keep + 1] = 1 /\ (rest \/ lsb = 1)
                 inc == IncBits(kept)
             IN  IF up
                 THEN [ nan |-> FALSE, neg |-> FALSE, int |-> n + inc.carry,
                        frac |-> StripZeros(inc.bits) ]
                 ELSE [ nan |-> FALSE, neg |-> FALSE, int |-> n,
                        frac |-> StripZeros(kept) ]

\* the eight bits of n < 256
Bits8(n) == [ k \in 1..8 |-> (n \div 2^(8 - k)) % 2 ]

\* the first 8 * chunks bits of r / q (0 <= r < q) and the remainder left
RECURSIVE LongDiv(_, _, _)
LongDiv(r, q, chunks) ==
    IF chunks = 0 THEN [ bits |-> << >>, rem |-> r ]
    ELSE LET d == LongDiv((256 * r) % q, q, chunks - 1)
         IN  [ bits |-> Bits8((256 * r) \div q) \o d.bits, rem |-> d.rem ]

\* the number nearest to p / q (p >= 0, q > 0): the value of a decimal
\* literal with digits p and q = 10^(digits after the point), and of the
\* division p / q
FlRatio(p, q) ==
    LET d == LongDiv(p % q, q, 9)
    IN  RoundBits(p \div q, d.bits, d.rem # 0)

\* f padded with zeros to n bits
PadBits(f, n) == [ k \in 1..n |-> IF k <= Len(f) THEN f[k] ELSE 0 ]

LongerFrac(x, y) ==
    IF Len(x.frac) >= Len(y.frac) THEN Len(x.frac) ELSE Len(y.frac)

\* bit strings of equal length: the carry of f + g into position k
CarryInto(f, g, k) ==
    \E j \in (k + 1)..Len(f) :
        /\ f[j] = 1 /\ g[j] = 1
        /\ \A n \in (k + 1)..(j - 1) : f[n] + g[n] = 1

\* bit strings of equal length: the borrow of f - g from position k
BorrowFrom(f, g, k) ==
    \E j \in (k + 1)..Len(f) :
        /\ f[j] = 0 /\ g[j] = 1
        /\ \A n \in (k + 1)..(j - 1) : f[n] = g[n]

\* x >= y, for numbers x, y >= 0
NumGeq(x, y) ==
    LET n == LongerFrac(x, y)
    IN  \/ x.int > y.int
        \/ x.int = y.int /\ ~BorrowFrom(PadBits(x.frac, n), PadBits(y.frac, n), 0)

\* x - y rounded, for numbers x >= y >= 0
SubOrdered(x, y) ==
    LET n == LongerFrac(x, y)
        f == PadBits(x.frac, n)
        g == PadBits(y.frac, n)
        bits == [ k \in 1..n |->
                    (f[k] + g[k] + IF BorrowFrom(f, g, k) THEN 1 ELSE 0) % 2 ]
    IN  RoundBits(x.int - y.int - (IF BorrowFrom(f, g, 0) THEN 1 ELSE 0),
                  bits, FALSE)

\* the operator - on two numbers that are NaN or >= 0
NumSub(x, y) ==
    IF x.nan \/ y.nan THEN NaN
    ELSE IF NumGeq(x, y) THEN SubOrdered(x, y)
    ELSE [ SubOrdered(y, x) EXCEPT !.neg = TRUE ]

\* the operator + on two numbers that are NaN or >= 0
NumAdd(x, y) ==
    IF x.nan \/ y.nan THEN NaN
    ELSE LET n == LongerFrac(x, y)
             f == PadBits(x.frac, n)
             g == PadBits(y.frac, n)
             bits == [ k \in 1..n |->
                         (f[k] + g[k] + IF CarryInto(f, g, k) THEN 1 ELSE 0) % 2 ]
         IN  RoundBits(x.int + y.int + (IF CarryInto(f, g, 0) THEN 1 ELSE 0),
                       bits, FALSE)

\* the operator * on a number that is NaN or an integer >= 0 and an integer
NumTimes(x, k) == IF x.nan THEN NaN ELSE IntNum(x.int * k)

(***************************************************************************)
(* Strings of the parsers, character by character.                         *)
(***************************************************************************)
\* String.prototype.trim
trim(s) ==
    LET solid == { k \in 1..Len(s) : ~IsSpace(s[k]) }
    IN  IF solid = {} THEN << >> ELSE SubSeq(s, First(solid), Last(solid))

\* sep occurs in s at position k
MatchAt(s, sep, k) ==
    /\ k + Len(sep) - 1 <= Len(s)
    /\ \A j \in 1..Len(sep) : s[k + j - 1] = sep[j]

\* String.prototype.indexOf, counted from 1; 0 when sep does not occur
indexOf(s, sep, from) ==
    LET hits == { k \in from..Len(s) : MatchAt(s, sep, k) }
    IN  IF hits = {} THEN 0 ELSE First(hits)

\* String.prototype.includes
includes(s, sep) == indexOf(s, sep, 1) # 0

\* String.prototype.startsWith
startsWith(s, prefix) == MatchAt(s, prefix, 1)

\* String.prototype.split with a string separator: the pieces between the
\* occurrences found left to right; a string without one is a single piece
RECURSIVE SplitAt(_, _, _)
SplitAt(s, sep, from) ==
    LET k == indexOf(s, sep, from)
    IN  IF k = 0 THEN << SubSeq(s, from, Len(s)) >>
        ELSE << SubSeq(s, from, k - 1) >> \o SplitAt(s, sep, k + Len(sep))

split(s, sep) == SplitAt(s, sep, 1)

\* Array.prototype.join
RECURSIVE join(_, _)
join(pieces, sep) ==
    IF Len(pieces) = 0 THEN << >>
    ELSE IF Len(pieces) = 1 THEN pieces[1]
    ELSE pieces[1] \o sep \o join(Tail(pieces), sep)

\* String.prototype.replace with a global literal pattern
replaceAll(s, pattern, replacement) == join(split(s, pattern), replacement)

Digits == << "0", "1", "2", "3", "4", "5", "6", "7", "8", "9" >>

IsDigit(c) == c \in Range(Digits)

DigitValue(c) == (CHOOSE k \in 1..10 : Digits[k] = c) - 1

\* the number of digits of s from position k on
DigitRun(s, k) ==
    LET others == { j \in k..Len(s) : ~IsDigit(s[j]) }
    IN  IF others = {} THEN Len(s) - k + 1 ELSE First(others) - k

\* the value of a string of digits
RECURSIVE DigitsValue(_)
DigitsValue(ds) ==
    IF Len(ds) = 0 THEN 0
    ELSE 10 * DigitsValue(SubSeq(ds, 1, Len(ds) - 1)) + DigitValue(ds[Len(ds)])

\* the longest decimal literal (digits, then optionally a point and digits)
\* that starts s after its leading whitespace: the position after it and
\* its value, NaN when there is no digit
DecimalPrefix(s) ==
    LET from == SkipSpaces(s, 1)
        whole == DigitRun(s, from)
        point == from + whole
        part == IF point <= Len(s) /\ s[point] = "."
                THEN DigitRun(s, point + 1) ELSE 0
        end == IF part > 0 \/ (whole > 0 /\ point <= Len(s) /\ s[point] = ".")
               THEN point + 1 + part ELSE point
    IN  IF whole = 0 /\ part = 0
        THEN [ end |-> from, value |-> NaN ]
        ELSE [ end |-> end,
               value |-> FlRatio(DigitsValue(SubSeq(s, from, point - 1)) * 10^part
                                 + DigitsValue(SubSeq(s, point + 1, point + part)),
                                 10^part) ]

\* parseFloat: the value of the longest decimal prefix
parseFloat(s) == DecimalPrefix(s).value

\* parseInt(s, 10): the value of the longest prefix of digits
parseInt(s) ==
    LET from == SkipSpaces(s, 1)
        whole == DigitRun(s, from)
    IN  IF whole = 0 THEN NaN
        ELSE IntNum(DigitsValue(SubSeq(s, from, from + whole - 1)))

\* Number(s): 0 for a blank string, the value of s when the whole of it,
\* trimmed, is a decimal literal, NaN otherwise
Number(s) ==
    LET t == trim(s)
    IN  IF Len(t) = 0 THEN IntNum(0)
        ELSE IF DecimalPrefix(t).end = Len(t) + 1 THEN DecimalPrefix(t).value
        ELSE NaN

(***************************************************************************)
(* The timestamp codecs.                                                   *)
(***************************************************************************)
\* parts[k]; a piece that is not there is undefined, which parseInt and
\* parseFloat read as the string "undefined" (and which is NaN in
\* arithmetic, as Number of that string is)
FieldOf(parts, k) ==
    IF k <= Len(parts) THEN parts[k]
    ELSE << "u", "n", "d", "e", "f", "i", "n", "e", "d" >>

\* faulty variant: the seconds read as a whole number
vttTimeToSecondsWhole(timeStr) ==
    LET parts == split(timeStr, << ":" >>)
        hours == parseInt(FieldOf(parts, 1))
        minutes == parseInt(FieldOf(parts, 2))
        seconds == parseInt(FieldOf(parts, 3))
    IN  NumAdd(NumAdd(NumTimes(hours, 3600), NumTimes(minutes, 60)), seconds)

\* vttTimeToSeconds: hours * 3600 + minutes * 60 + seconds, the seconds
\* with their fraction read as one decimal literal
vttTimeToSeconds(timeStr) ==
    LET parts == split(timeStr, << ":" >>)
        hours == parseInt(FieldOf(parts, 1))
        minutes == parseInt(FieldOf(parts, 2))
        seconds == parseFloat(FieldOf(parts, 3))
    IN  NumAdd(NumAdd(NumTimes(hours, 3600), NumTimes(minutes, 60)), seconds)

\* srtTimeToSeconds: hours * 3600 + minutes * 60 + seconds + ms / 1000, the
\* milliseconds divided on their own and added last
srtTimeToSeconds(timeStr) ==
    LET halves == split(timeStr, << "," >>)
        fields == split(halves[1], << ":" >>)
        hours == Number(FieldOf(fields, 1))
        minutes == Number(FieldOf(fields, 2))
        seconds == Number(FieldOf(fields, 3))
        millis == IF Len(halves) >= 2 /\ Len(halves[2]) > 0
                  THEN IF parseInt(halves[2]).nan THEN NaN
                       ELSE FlRatio(parseInt(halves[2]).int, 1000)
                  ELSE IntNum(0)
    IN  NumAdd(NumAdd(NumAdd(NumTimes(hours, 3600), NumTimes(minutes, 60)),
                      seconds),
               millis)

(***************************************************************************)
(* parseVttContent and parseSrtContent.                                    *)
(***************************************************************************)
Newline == << "\n" >>
BlankLine == << "\n", "\n" >>
Arrow == << " ", "-", "-", ">", " " >>
Header == << "W", "E", "B", "V", "T", "T" >>
Note == << "N", "O", "T", "E" >>

\* currentSegment = {}
NoCue == [ open |-> FALSE, start |-> NaN, duration |-> NaN ]

\* one iteration of the loop of parseVttContent over a line
VttLine(st, rawLine) ==
    LET line == trim(rawLine)
    IN  IF Len(line) = 0 \/ line = Header \/ startsWith(line, Note)
        THEN st
        ELSE IF includes(line, Arrow)
        THEN LET times == split(line, Arrow)
                 start == vttTimeToSeconds(times[1])
                 end == vttTimeToSeconds(times[2])
             IN  [ st EXCEPT !.cue = [ open |-> TRUE, start |-> start,
                                       duration |-> NumSub(end, start) ] ]
        ELSE IF st.cue.open
        THEN [ segments |-> Append(st.segments,
                                   [ text |-> line, start |-> st.cue.start,
                                     duration |-> st.cue.duration ]),
               cue |-> NoCue ]
        ELSE st

RECURSIVE VttLoop(_, _, _)
VttLoop(st, lines, k) ==
    IF k > Len(lines) THEN st
    ELSE VttLoop(VttLine(st, lines[k]), lines, k + 1)

parseVttContent(content) ==
    VttLoop([ segments |-> << >>, cue |-> NoCue ], split(content, Newline), 1).segments

\* faulty variant: a block of two lines is taken for a cue
SrtBlockTwoLines(segs, block) ==
    LET lines == split(trim(block), Newline)
    IN  IF Len(lines) >= 2 /\ includes(lines[2], Arrow)
        THEN LET times == split(lines[2], Arrow)
                 start == srtTimeToSeconds(trim(times[1]))
                 end == srtTimeToSeconds(trim(times[2]))
             IN  Append(segs,
                        [ text |-> trim(join(SubSeq(lines, 3, Len(lines)), << " " >>)),
                          start |-> start,
                          duration |-> NumSub(end, start) ])
        ELSE segs

\* one iteration of the loop of parseSrtContent over a block
SrtBlock(segs, block) ==
    LET lines == split(trim(block), Newline)
    IN  IF Len(lines) >= 3 /\ includes(lines[2], Arrow)
        THEN LET times == split(lines[2], Arrow)
                 start == srtTimeToSeconds(trim(times[1]))
                 end == srtTimeToSeconds(trim(times[2]))
             IN  Append(segs,
                        [ text |-> trim(join(SubSeq(lines, 3, Len(lines)), << " " >>)),
                          start |-> start,
                          duration |-> NumSub(end, start) ])
        ELSE segs

RECURSIVE SrtLoop(_, _, _)
SrtLoop(segs, blocks, k) ==
    IF k > Len(blocks) THEN segs
    ELSE SrtLoop(SrtBlock(segs, blocks[k]), blocks, k + 1)

parseSrtContent(content) == SrtLoop(<< >>, split(content, BlankLine), 1)

(***************************************************************************)
(* parseXmlSubtitles.                                                      *)
(***************************************************************************)
TextOpen == << "<", "t", "e", "x", "t" >>
TextClose == << "<", "/", "t", "e", "x", "t", ">" >>
StartAttr == << "s", "t", "a", "r", "t", "=", "\"" >>
DurAttr == << "d", "u", "r", "=", "\"" >>
Quote == << "\"" >>

\* no character c among s[a..b]
NoneBetween(s, c, a, b) == \A k \in a..b : s[k] # c

\* the rest of the record pattern from an occurrence of dur=" at d,
\*     dur="([^"]*)"[^>]*>([^<]*)<\/text>
\* the position after the match, 0 when it does not match
DurEnd(s, d) ==
    LET quote == indexOf(s, Quote, d + Len(DurAttr))
        close == IF quote = 0 THEN 0 ELSE indexOf(s, << ">" >>, quote + 1)
        open == IF close = 0 THEN 0 ELSE indexOf(s, << "<" >>, close + 1)
    IN  IF open # 0 /\ MatchAt(s, TextClose, open)
        THEN open + Len(TextClose) ELSE 0

\* the rest of the record pattern from an occurrence of start=" at q,
\*     start="([^"]*)"[^>]*dur="...
\* [^>]* greedy: the last dur=" that lets the rest match
StartEnd(s, q) ==
    LET quote == indexOf(s, Quote, q + Len(StartAttr))
        durs == { d \in (quote + 1)..Len(s) :
                    /\ MatchAt(s, DurAttr, d)
                    /\ NoneBetween(s, ">", quote + 1, d - 1)
                    /\ DurEnd(s, d) # 0 }
    IN  IF quote = 0 \/ durs = {} THEN 0 ELSE DurEnd(s, Last(durs))

\* the record pattern of parseXmlSubtitles at position p,
\*     <text[^>]*start="([^"]*)"[^>]*dur="([^"]*)"[^>]*>([^<]*)<\/text>
\* the position after the match, 0 when it does not match at p
RecordEnd(s, p) ==
    IF ~MatchAt(s, TextOpen, p) THEN 0
    ELSE LET after == p + Len(TextOpen)
             starts == { q \in after..Len(s) :
                           /\ MatchAt(s, StartAttr, q)
                           /\ NoneBetween(s, ">", after, q - 1)
                           /\ StartEnd(s, q) # 0 }
         IN  IF starts = {} THEN 0 ELSE StartEnd(s, Last(starts))

\* String.prototype.match with the global record pattern: the matches,
\* left to right, each search resuming after the previous match
RECURSIVE RecordsFrom(_, _)
RecordsFrom(s, from) ==
    LET found == { p \in from..Len(s) : RecordEnd(s, p) # 0 }
    IN  IF found = {} THEN << >>
        ELSE << SubSeq(s, First(found), RecordEnd(s, First(found)) - 1) >>
             \o RecordsFrom(s, RecordEnd(s, First(found)))

\* match.match(/name="([^"]*)"/): the first attribute value after name="
AttrMatch(match, attr) ==
    LET q == indexOf(match, attr, 1)
        quote == IF q = 0 THEN 0 ELSE indexOf(match, Quote, q + Len(attr))
    IN  IF quote = 0 THEN [ found |-> FALSE, value |-> << >> ]
        ELSE [ found |-> TRUE,
               value |-> SubSeq(match, q + Len(attr), quote - 1) ]

\* match.match(/>([^<]*)</): the characters between the first > and the
\* next <
InnerMatch(match) ==
    LET close == indexOf(match, << ">" >>, 1)
        open == IF close = 0 THEN 0 ELSE indexOf(match, << "<" >>, close + 1)
    IN  IF open = 0 THEN [ found |-> FALSE, value |-> << >> ]
        ELSE [ found |-> TRUE, value |-> SubSeq(match, close + 1, open - 1) ]

\* faulty variant: the apostrophe entity left undecoded
decodeEntitiesNoApostrophe(s) ==
    replaceAll(replaceAll(replaceAll(replaceAll(s,
        << "&", "a", "m", "p", ";" >>, << "&" >>),
        << "&", "l", "t", ";" >>, << "<" >>),
        << "&", "g", "t", ";" >>, << ">" >>),
        << "&", "q", "u", "o", "t", ";" >>, << "\"" >>)

\* the chain of replacements that decodes the entities, in its order
decodeEntities(s) ==
    replaceAll(replaceAll(replaceAll(replaceAll(replaceAll(s,
        << "&", "a", "m", "p", ";" >>, << "&" >>),
        << "&", "l", "t", ";" >>, << "<" >>),
        << "&", "g", "t", ";" >>, << ">" >>),
        << "&", "q", "u", "o", "t", ";" >>, << "\"" >>),
        << "&", "#", "3", "9", ";" >>, << "'" >>)

\* one iteration of the loop of parseXmlSubtitles over a match
XmlRecord(segs, match) ==
    LET startMatch == AttrMatch(match, StartAttr)
        durMatch == AttrMatch(match, DurAttr)
        textMatch == InnerMatch(match)
        start == parseFloat(startMatch.value)
        duration == parseFloat(durMatch.value)
        text == trim(decodeEntities(textMatch.value))
    IN  IF /\ startMatch.found /\ durMatch.found /\ textMatch.found
           /\ Len(text) > 0 /\ ~start.nan /\ ~duration.nan
        THEN Append(segs, [ text |-> text, start |-> start,
                            duration |-> duration ])
        ELSE segs

RECURSIVE XmlLoop(_, _, _)
XmlLoop(segs, matches, k) ==
    IF k > Len(matches) THEN segs
    ELSE XmlLoop(XmlRecord(segs, matches[k]), matches, k + 1)

parseXmlSubtitles(xmlContent) == XmlLoop(<< >>, RecordsFrom(xmlContent, 1), 1)

(***************************************************************************)
(* Payloads of the line formats.  A payload is the content of a subtitle   *)
(* file, a string with its newlines; it is written here from lines.        *)
(***************************************************************************)
\* longest payload, in lines, written from the pool of lines
MaxLines == 3

\* the lines the payloads are written from
Line ==
    [ \* an empty line
      blank |->
        << >>,
      \* WEBVTT
      header |->
        << "W", "E", "B", "V", "T", "T" >>,
      \* NOTE x
      note |->
        << "N", "O", "T", "E", " ", "x" >>,
      \* 00:00:01.000 --> 00:00:04.000
      cueVtt |->
        << "0", "0", ":", "0", "0", ":", "0", "1", ".", "0", "0", "0", " ",
           "-", "-", ">", " ", "0", "0", ":", "0", "0", ":", "0", "4", ".",
           "0", "0", "0" >>,
      \* 00:00:01,000 --> 00:00:04,000
      cueSrt |->
        << "0", "0", ":", "0", "0", ":", "0", "1", ",", "0", "0", "0", " ",
           "-", "-", ">", " ", "0", "0", ":", "0", "0", ":", "0", "4", ",",
           "0", "0", "0" >>,
      \* a non-numeric component: 00:xx:01.000 --> 00:00:04.000
      cueBad |->
        << "0", "0", ":", "x", "x", ":", "0", "1", ".", "0", "0", "0", " ",
           "-", "-", ">", " ", "0", "0", ":", "0", "0", ":", "0", "4", ".",
           "0", "0", "0" >>,
      \* one separator too few: 00:01.000 --> 00:04.000
      cueShort |->
        << "0", "0", ":", "0", "1", ".", "0", "0", "0", " ", "-", "-", ">",
           " ", "0", "0", ":", "0", "4", ".", "0", "0", "0" >>,
      \* align:start position:0%
      directive |->
        << "a", "l", "i", "g", "n", ":", "s", "t", "a", "r", "t", " ", "p",
           "o", "s", "i", "t", "i", "o", "n", ":", "0", "%" >>,
      \* hi
      text |->
        << "h", "i" >>,
      \* 2
      index |->
        << "2" >>,
      \* 00:00:04.000 --> 00:00:07.500
      cueVtt2 |->
        << "0", "0", ":", "0", "0", ":", "0", "4", ".", "0", "0", "0", " ",
           "-", "-", ">", " ", "0", "0", ":", "0", "0", ":", "0", "7", ".",
           "5", "0", "0" >>,
      \* 00:00:04,000 --> 00:00:07,500
      cueSrt2 |->
        << "0", "0", ":", "0", "0", ":", "0", "4", ",", "0", "0", "0", " ",
           "-", "-", ">", " ", "0", "0", ":", "0", "0", ":", "0", "7", ",",
           "5", "0", "0" >>,
      \* hello world
      hello |->
        << "h", "e", "l", "l", "o", " ", "w", "o", "r", "l", "d" >>,
      \* goodbye world
      goodbye |->
        << "g", "o", "o", "d", "b", "y", "e", " ", "w", "o", "r", "l",
           "d" >>,
      \* 1
      one |->
        << "1" >> ]

\* the lines of the bounded payloads
LinePool ==
    { Line.blank, Line.header, Line.note, Line.cueVtt, Line.cueSrt,
      Line.cueBad, Line.cueShort, Line.directive, Line.text, Line.index }

\* the content of a file with the given lines
ContentOf(lines) == join(lines, Newline)

\* payloads of two cues:
\*   vtt, srt      the cues 1s-4s "hello world" and 4s-7.5s "goodbye world"
\*   ...OneBad     the first cue with a non-numeric timestamp component
\*   ...OneShort   the first cue with a separator too few in its timestamps
\*   srtTwoLines   one SRT block whose text runs over two lines
\*   vttReversed   one cue whose range ends before it starts (4s --> 1s)
Example ==
    [ vtt |->
        ContentOf(<< Line.header, Line.blank, Line.cueVtt, Line.hello,
                     Line.blank, Line.cueVtt2, Line.goodbye >>),
      srt |->
        ContentOf(<< Line.one, Line.cueSrt, Line.hello, Line.blank,
                     Line.index, Line.cueSrt2, Line.goodbye >>),
      vttOneBad |->
        ContentOf(<< Line.header, Line.blank, Line.cueBad, Line.hello,
                     Line.blank, Line.cueVtt2, Line.goodbye >>),
      srtOneBad |->
        ContentOf(<< Line.one, Line.cueBad, Line.hello, Line.blank,
                     Line.index, Line.cueSrt2, Line.goodbye >>),
      vttOneShort |->
        ContentOf(<< Line.header, Line.blank, Line.cueShort, Line.hello,
                     Line.blank, Line.cueVtt2, Line.goodbye >>),
      srtOneShort |->
        ContentOf(<< Line.one, Line.cueShort, Line.hello, Line.blank,
                     Line.index, Line.cueSrt2, Line.goodbye >>),
      srtTwoLines |->
        ContentOf(<< Line.one, Line.cueSrt, Line.hello, Line.goodbye >>),
      vttReversed |->
        ContentOf(<< Line.header, Line.blank,
                     SubSeq(Line.cueVtt2, 1, 12) \o Arrow
                     \o SubSeq(Line.cueVtt, 1, 12),
                     Line.hello >>) ]

\* the points in time of the cue ranges
Stamps == [ h : { 0, 1 }, m : { 0, 2 }, s : { 1, 4 }, ms : { 0, 118, 500 } ]

\* the cue time ranges: a start and a later end
Ranges ==
    LET Millis(t) == ((t.h * 60 + t.m) * 60 + t.s) * 1000 + t.ms
    IN  { r \in [ start : Stamps, end : Stamps ] :
            Millis(r.start) < Millis(r.end) }

\* n written with two and with three digits
Pad2(n) == << Digits[(n \div 10) + 1], Digits[(n % 10) + 1] >>
Pad3(n) == << Digits[(n \div 100) + 1] >> \o Pad2(n % 100)

\* HH:MM:SS.mmm and HH:MM:SS,mmm
VttStamp(t) ==
    Pad2(t.h) \o << ":" >> \o Pad2(t.m) \o << ":" >> \o Pad2(t.s)
    \o << "." >> \o Pad3(t.ms)
SrtStamp(t) ==
    Pad2(t.h) \o << ":" >> \o Pad2(t.m) \o << ":" >> \o Pad2(t.s)
    \o << "," >> \o Pad3(t.ms)

\* the WebVTT and the SRT encoding of one cue over each range
VttEncodingOf ==
    [ r \in Ranges |->
        ContentOf(<< Line.header, Line.blank,
                     VttStamp(r.start) \o Arrow \o VttStamp(r.end),
                     Line.text >>) ]
SrtEncodingOf ==
    [ r \in Ranges |->
        ContentOf(<< Line.one,
                     SrtStamp(r.start) \o Arrow \o SrtStamp(r.end),
                     Line.text >>) ]

\* the payloads handed to parseVttContent and parseSrtContent, as lines
LineSources ==
    SeqsUpTo(LinePool, MaxLines)
    \cup { split(Example[name], Newline) : name \in DOMAIN Example }
    \cup { split(VttEncodingOf[r], Newline) : r \in Ranges }
    \cup { split(SrtEncodingOf[r], Newline) : r \in Ranges }

(***************************************************************************)
(* Payloads of the XML format: caption documents, written from records.    *)
(***************************************************************************)
\* longest caption document, in <text> records
MaxCues == 2

\* the <text> records the documents are written from
Record ==
    [ \* <text start="1" dur="3">hi</text>
      plain |->
        << "<", "t", "e", "x", "t", " ", "s", "t", "a", "r", "t", "=",
           "\"", "1", "\"", " ", "d", "u", "r", "=", "\"", "3", "\"", ">",
           "h", "i", "<", "/", "t", "e", "x", "t", ">" >>,
      \* the same record with dur before start: <text dur="3" start="1">hi</text>
      durFirst |->
        << "<", "t", "e", "x", "t", " ", "d", "u", "r", "=", "\"", "3",
           "\"", " ", "s", "t", "a", "r", "t", "=", "\"", "1", "\"", ">",
           "h", "i", "<", "/", "t", "e", "x", "t", ">" >>,
      \* <text start="4" dur="3.5">Q&amp;A &lt;session&gt;</text>
      entities |->
        << "<", "t", "e", "x", "t", " ", "s", "t", "a", "r", "t", "=",
           "\"", "4", "\"", " ", "d", "u", "r", "=", "\"", "3", ".", "5",
           "\"", ">", "Q", "&", "a", "m", "p", ";", "A", " ", "&", "l",
           "t", ";", "s", "e", "s", "s", "i", "o", "n", "&", "g", "t", ";",
           "<", "/", "t", "e", "x", "t", ">" >>,
      \* <text start="4" dur="3">&quot;a&#39;</text>
      quotes |->
        << "<", "t", "e", "x", "t", " ", "s", "t", "a", "r", "t", "=",
           "\"", "4", "\"", " ", "d", "u", "r", "=", "\"", "3", "\"", ">",
           "&", "q", "u", "o", "t", ";", "a", "&", "#", "3", "9", ";", "<",
           "/", "t", "e", "x", "t", ">" >>,
      \* <text start="abc" dur="3">hi</text>
      badStart |->
        << "<", "t", "e", "x", "t", " ", "s", "t", "a", "r", "t", "=",
           "\"", "a", "b", "c", "\"", " ", "d", "u", "r", "=", "\"", "3",
           "\"", ">", "h", "i", "<", "/", "t", "e", "x", "t", ">" >>,
      \* <text start="1" dur="">hi</text>
      noDur |->
        << "<", "t", "e", "x", "t", " ", "s", "t", "a", "r", "t", "=",
           "\"", "1", "\"", " ", "d", "u", "r", "=", "\"", "\"", ">", "h",
           "i", "<", "/", "t", "e", "x", "t", ">" >>,
      \* <text start="1" dur="3"> </text>
      blank |->
        << "<", "t", "e", "x", "t", " ", "s", "t", "a", "r", "t", "=",
           "\"", "1", "\"", " ", "d", "u", "r", "=", "\"", "3", "\"", ">",
           " ", "<", "/", "t", "e", "x", "t", ">" >>,
      \* a start value that only begins with a number: <text start="12abc" dur="3">hi</text>
      prefix |->
        << "<", "t", "e", "x", "t", " ", "s", "t", "a", "r", "t", "=",
           "\"", "1", "2", "a", "b", "c", "\"", " ", "d", "u", "r", "=",
           "\"", "3", "\"", ">", "h", "i", "<", "/", "t", "e", "x", "t",
           ">" >> ]

RecordPool == { Record[name] : name \in DOMAIN Record }

\* the documents handed to parseXmlSubtitles, as records
XmlSources == SeqsUpTo(RecordPool, MaxCues)

(***************************************************************************)
(* The format parsers as operations: one call of a parser on one payload.  *)
(* The parsers run to their return on every string: no statement of theirs *)
(* throws (an absent piece of a split is undefined and parses to NaN).     *)
(***************************************************************************)
\* parseVttContent(content)
ParseVtt ==
    /\ ppc = "idle"
    /\ \E lines \in LineSources :
        LET content == ContentOf(lines)
        IN  /\ source' = lines
            /\ payload' = content
            /\ parsed' = parseVttContent(content)
    /\ format' = "vtt"
    /\ ppc' = "done"
    /\ UNCHANGED << dedupVars, orchVars, extVars >>

\* parseSrtContent(content)
ParseSrt ==
    /\ ppc = "idle"
    /\ \E lines \in LineSources :
        LET content == ContentOf(lines)
        IN  /\ source' = lines
            /\ payload' = content
            /\ parsed' = parseSrtContent(content)
    /\ format' = "srt"
    /\ ppc' = "done"
    /\ UNCHANGED << dedupVars, orchVars, extVars >>

\* parseXmlSubtitles(xmlContent)
ParseXml ==
    /\ ppc = "idle"
    /\ \E records \in XmlSources :
        LET xmlContent == join(records, << >>)
        IN  /\ source' = records
            /\ payload' = xmlContent
            /\ parsed' = parseXmlSubtitles(xmlContent)
    /\ format' = "xml"
    /\ ppc' = "done"
    /\ UNCHANGED << dedupVars, orchVars, extVars >>

InitParse ==
    /\ OrchIdle
    /\ ytdlpPath = FALSE
    /\ DedupIdle
    /\ ParseIdle
    /\ ExtIdleExcept("none")

NextParse ==
    \/ ParseVtt
    \/ ParseSrt
    \/ ParseXml

SpecParse == InitParse /\ [][NextParse]_vars

(***************************************************************************)
(* Claims about the format parsers (checked under SpecParse).              *)
(***************************************************************************)
\* a parser has returned from a call on a payload of the given format
Returned(f) == ppc = "done" /\ format = f

\* hours * 3600 + minutes * 60 + seconds of a point in time, the seconds
\* being the decimal number SS.mmm
SecondsOf(t) ==
    NumAdd(IntNum(t.h * 3600 + t.m * 60), FlRatio(t.s * 1000 + t.ms, 1000))

\* the segment of a cue over the range r with the given text
CueSegment(r, text) ==
    [ text |-> text, start |-> SecondsOf(r.start),
      duration |-> NumSub(SecondsOf(r.end), SecondsOf(r.start)) ]

\* the payload has n lines, the last two a timestamp line and the text "hi":
\* the shape of the encodings of one cue
IsSingleCue(n) ==
    /\ Len(source) = n
    /\ includes(source[n - 1], Arrow)
    /\ source[n] = Line.text

\* C11: the WebVTT parser turns the payload with the cues 1s-4s "hello
\* world" and 4s-7.5s "goodbye world" into exactly the segments (1, 3,
\* "hello world") and (4, 3.5, "goodbye world"), in that order; and a
\* well-formed single-line cue over any range yields one segment with
\* start = hours*3600 + minutes*60 + seconds of its left timestamp and
\* duration = end - start.
C11_VttCues ==
    Returned("vtt") =>
        /\ payload = Example.vtt =>
             parsed = << [ text |-> Line.hello, start |-> IntNum(1),
                           duration |-> IntNum(3) ],
                         [ text |-> Line.goodbye, start |-> IntNum(4),
                           duration |-> FlRatio(35, 10) ] >>
        /\ IsSingleCue(4) =>
             \A r \in Ranges :
                payload = VttEncodingOf[r]
                    => parsed = << CueSegment(r, Line.text) >>

C11_Witness ==
    /\ Returned("vtt")
    /\ payload = Example.vtt
    /\ Len(parsed) = 2
    /\ parsed[2].duration = FlRatio(35, 10)

\* C12: for every cue time range, the SRT parser applied to the SRT encoding
\* of the range yields the same start and the same duration, in seconds,
\* as the WebVTT parser applied to the WebVTT encoding of that range.
C12_SrtEqualsVtt ==
    Returned("srt") /\ IsSingleCue(3) =>
        \A r \in Ranges :
            payload = SrtEncodingOf[r] =>
                LET vtt == parseVttContent(VttEncodingOf[r])
                IN  /\ Len(parsed) = 1
                    /\ Len(vtt) = 1
                    /\ parsed[1].start = vtt[1].start
                    /\ parsed[1].duration = vtt[1].duration

\* the segment of the second cue of the example payloads, 4s to 7.5s
GoodbyeSegment ==
    [ text |-> Line.goodbye, start |-> IntNum(4), duration |-> FlRatio(35, 10) ]

\* C13: a WebVTT or SRT payload with one cue whose timestamp is malformed (a
\* non-numeric component, or a separator too few) and one well-formed cue
\* parses to the well-formed cue alone: the malformed cue is absent and no
\* segment with a not-a-number start or duration is emitted.
C13_MalformedCueAbsent ==
    /\ Returned("vtt") /\ payload \in { Example.vttOneBad, Example.vttOneShort }
         => parsed = << GoodbyeSegment >>
    /\ Returned("srt") /\ payload \in { Example.srtOneBad, Example.srtOneShort }
         => parsed = << GoodbyeSegment >>

\* the five entities
Entities ==
    { << "&", "a", "m", "p", ";" >>, << "&", "l", "t", ";" >>,
      << "&", "g", "t", ";" >>, << "&", "q", "u", "o", "t", ";" >>,
      << "&", "#", "3", "9", ";" >> }

\* C14: the XML parser decodes the entities &amp; &lt; &gt; &quot; &#39; in
\* cue text: the cue with inner text "Q&amp;A &lt;session&gt;" yields a
\* segment with text "Q&A <session>", the cue with inner text
\* "&quot;a&#39;" one with text "a" in double quote and apostrophe, and no
\* emitted text still holds an entity.
C14_EntitiesDecoded ==
    Returned("xml") =>
        /\ payload = Record.entities =>
             parsed = << [ text |-> << "Q", "&", "A", " ", "<", "s", "e", "s",
                                       "s", "i", "o", "n", ">" >>,
                           start |-> IntNum(4), duration |-> FlRatio(35, 10) ] >>
        /\ payload = Record.quotes =>
             parsed = << [ text |-> << "\"", "a", "'" >>,
                           start |-> IntNum(4), duration |-> IntNum(3) ] >>
        /\ \A k \in 1..Len(parsed) :
             \A entity \in Entities : ~includes(parsed[k].text, entity)

C14_Witness ==
    /\ Returned("xml")
    /\ payload = Record.entities
    /\ Len(parsed) = 1
    /\ Len(parsed[1].text) = 13

\* the payloads of the line formats without a well-formed cue: no line of
\* theirs is a well-formed timestamp line
CuelessLines == SeqsUpTo(LinePool \ { Line.cueVtt, Line.cueSrt }, MaxLines)

\* the caption documents without a well-formed cue: every record has a
\* non-numeric start, an empty dur or a blank text
CuelessRecords ==
    SeqsUpTo({ Record.badStart, Record.noDur, Record.blank }, MaxCues)

\* C15: each of the three parsers returns on every payload, and returns the
\* empty sequence when the payload is empty or holds no well-formed cue.
C15_EmptyWithoutCue ==
    ppc = "done" =>
        /\ Len(payload) = 0 => parsed = << >>
        /\ format \in { "vtt", "srt" } /\ source \in CuelessLines
             => parsed = << >>
        /\ format = "xml" /\ source \in CuelessRecords
             => parsed = << >>

\* the segment of the records Record.plain and Record.durFirst
PlainSegment ==
    [ text |-> Line.text, start |-> IntNum(1), duration |-> IntNum(3) ]

\* C16: the XML parser finds a <text> record with valid start and dur and
\* non-empty text whether start is written before dur or dur before start:
\* either record alone yields its segment, and a document parses to the
\* same segments with either record in first place.
C16_AttributeOrder ==
    Returned("xml") =>
        /\ payload \in { Record.plain, Record.durFirst }
             => parsed = << PlainSegment >>
        /\ \A record \in RecordPool :
             payload = Record.durFirst \o record
                => parsed = parseXmlSubtitles(Record.plain \o record)

\* the records of the pool with a non-empty text and decimal numbers as
\* start and dur, and the segment of each
IsValidRecord(record) ==
    record \in { Record.plain, Record.durFirst, Record.entities, Record.quotes }

SegmentOfRecord(record) ==
    CASE record \in { Record.plain, Record.durFirst } -> PlainSegment
      [] record = Record.entities ->
            [ text |-> << "Q", "&", "A", " ", "<", "s", "e", "s", "s", "i",
                          "o", "n", ">" >>,
              start |-> IntNum(4), duration |-> FlRatio(35, 10) ]
      [] record = Record.quotes ->
            [ text |-> << "\"", "a", "'" >>, start |-> IntNum(4),
              duration |-> IntNum(3) ]

\* the segments of the valid records of a document, in source order
SegmentsOfRecords(records) ==
    LET valid == SelectSeq(records, IsValidRecord)
    IN  [ k \in 1..Len(valid) |-> SegmentOfRecord(valid[k]) ]

\* C17: the XML parser discards exactly the records whose text is empty
\* after decoding and trimming or whose start or dur is not a decimal
\* number; every other record is emitted, in source order, whatever
\* records were discarded before it.
C17_DiscardsExactlyInvalid ==
    Returned("xml") => parsed = SegmentsOfRecords(source)

\* the blocks of a payload given as lines: the runs of lines between blank
\* lines
RECURSIVE RunsFrom(_, _, _)
RunsFrom(lines, k, run) ==
    IF k > Len(lines) THEN << run >>
    ELSE IF lines[k] = Line.blank
         THEN << run >> \o RunsFrom(lines, k + 1, << >>)
         ELSE RunsFrom(lines, k + 1, Append(run, lines[k]))

\* a block of at least three lines whose second line contains " --> "
IsSrtCue(run) == Len(run) >= 3 /\ includes(run[2], Arrow)

\* C18: the SRT parser emits one segment for each blank-line-separated block
\* that has at least three lines and " --> " in its second line, and none
\* for any other block (so none for a block of fewer than three lines); the
\* text of the segment is the lines after the timestamp line joined with a
\* single space and trimmed.
C18_SrtBlocks ==
    Returned("srt") =>
        LET cues == SelectSeq(RunsFrom(source, 1, << >>), IsSrtCue)
        IN  /\ Len(parsed) = Len(cues)
            /\ \A k \in 1..Len(cues) :
                 parsed[k].text =
                    trim(join(SubSeq(cues[k], 3, Len(cues[k])), << " " >>))

C18_Witness ==
    /\ Returned("srt")
    /\ payload = Example.srtTwoLines
    /\ Len(parsed) = 1
    /\ parsed[1].text = Line.hello \o << " " >> \o Line.goodbye

\* the marks of a styling or positioning directive
Align == << "a", "l", "i", "g", "n", ":" >>
Position == << "p", "o", "s", "i", "t", "i", "o", "n", ":" >>

\* C19: in the WebVTT parser a line that follows a cue's timestamp line and
\* contains align: or position: is skipped: no segment has such a line as
\* its text, and the text of the cue is the next line that is not such a
\* directive.
C19_DirectivesSkipped ==
    Returned("vtt") =>
        /\ \A k \in 1..Len(parsed) :
             /\ ~includes(parsed[k].text, Align)
             /\ ~includes(parsed[k].text, Position)
        /\ source = << Line.cueVtt, Line.directive, Line.text >>
             => parsed = << PlainSegment >>

\* the text of the cue whose lines begin at position k: the first text line
\* before the next blank line or timestamp line, if there is one (header
\* and NOTE lines are not text)
RECURSIVE CueTextFrom(_, _)
CueTextFrom(lines, k) ==
    IF k > Len(lines) \/ lines[k] = Line.blank \/ includes(lines[k], Arrow)
    THEN << >>
    ELSE IF lines[k] = Line.header \/ startsWith(lines[k], Note)
         THEN CueTextFrom(lines, k + 1)
         ELSE << lines[k] >>

\* the texts of the cues of a payload given as lines, from line k on
RECURSIVE CueTextsFrom(_, _)
CueTextsFrom(lines, k) ==
    IF k > Len(lines) THEN << >>
    ELSE IF includes(lines[k], Arrow)
         THEN CueTextFrom(lines, k + 1) \o CueTextsFrom(lines, k + 1)
         ELSE CueTextsFrom(lines, k + 1)

\* C20: in the WebVTT parser each timestamp line yields at most one segment:
\* its text is the first text line after the timestamp line, taken only
\* from the lines before the next blank line or the next timestamp line;
\* every later line is dropped.
C20_SingleLineCues ==
    Returned("vtt") =>
        [ k \in 1..Len(parsed) |-> parsed[k].text ] = CueTextsFrom(source, 1)

(***************************************************************************)
(* formatTranscriptForDisplay.                                             *)
(***************************************************************************)
\* the first 8 * chunks bits of (r + 0.f) / q (0 <= r < q) and the
\* remainder left
RECURSIVE DivBits(_, _, _, _)
DivBits(f, r, q, chunks) ==
    IF chunks = 0 THEN [ bits |-> << >>, rem |-> r ]
    ELSE LET h == PadBits(f, 8)
             t == 256 * r + 128 * h[1] + 64 * h[2] + 32 * h[3] + 16 * h[4]
                  + 8 * h[5] + 4 * h[6] + 2 * h[7] + h[8]
             d == DivBits(SubSeq(f, 9, Len(f)), t % q, q, chunks - 1)
         IN  [ bits |-> Bits8(t \div q) \o d.bits, rem |-> d.rem ]

\* x / q for a whole number q > 0: the number nearest to the quotient
NumDiv(x, q) ==
    IF x.nan THEN NaN
    ELSE LET d == DivBits(x.frac, x.int % q, q, (Len(x.frac) \div 8) + 9)
         IN  [ RoundBits(x.int \div q, d.bits, d.rem # 0)
                 EXCEPT !.neg = x.neg ]

\* x % q for a whole number q > 0: exact, with the sign of x
NumRem(x, q) == IF x.nan THEN NaN ELSE [ x EXCEPT !.int = x.int % q ]

\* Math.floor
floor(x) ==
    IF x.nan THEN NaN
    ELSE IF x.neg /\ x.frac # << >> THEN IntNum(0 - (x.int + 1))
    ELSE [ x EXCEPT !.frac = << >> ]

\* the decimal digits of n >= 0
RECURSIVE Decimal(_)
Decimal(n) ==
    IF n < 10 THEN << Digits[n + 1] >>
    ELSE Decimal(n \div 10) \o << Digits[(n % 10) + 1] >>

\* Number.prototype.toString of a whole number
toString(x) ==
    IF x.nan THEN << "N", "a", "N" >>
    ELSE IF x.neg THEN << "-" >> \o Decimal(x.int)
    ELSE Decimal(x.int)

\* String.prototype.padStart
padStart(s, n, c) ==
    IF Len(s) >= n THEN s ELSE [ k \in 1..(n - Len(s)) |-> c ] \o s

\* faulty variant: the seconds are written without padding
formatTranscriptUnpadded(transcript_) ==
    join([ k \in 1..Len(transcript_) |->
            LET segment == transcript_[k]
                minutes == floor(NumDiv(segment.start, 60))
                seconds == floor(NumRem(segment.start, 60))
                timestamp == toString(minutes) \o << ":" >>
                             \o toString(seconds)
            IN  << "[" >> \o timestamp \o << "]", " " >> \o segment.text ],
         Newline)

formatTranscriptForDisplay(transcript_) ==
    join([ k \in 1..Len(transcript_) |->
            LET segment == transcript_[k]
                minutes == floor(NumDiv(segment.start, 60))
                seconds == floor(NumRem(segment.start, 60))
                timestamp == toString(minutes) \o << ":" >>
                             \o padStart(toString(seconds), 2, "0")
            IN  << "[" >> \o timestamp \o << "]", " " >> \o segment.text ],
         Newline)

\* segments of the transcripts passed to the formatter
MaxShown == 2

\* starts: whole and fractional seconds below and above one minute and one
\* hour; justBelow is the largest number below 180
ShownStart ==
    [ zero |-> IntNum(0),
      fiftyNine |-> IntNum(59),
      minute |-> IntNum(60),
      belowMinute |-> FlRatio(59999, 1000),
      justBelow |-> [ nan |-> FALSE, neg |-> FALSE, int |-> 179,
                      frac |-> [ k \in 1..45 |-> 1 ] ],
      belowHour |-> IntNum(3599),
      hour |-> NumAdd(IntNum(3600), FlRatio(118, 1000)),
      overHour |-> NumAdd(IntNum(3725), FlRatio(5, 10)) ]

ShownSegments ==
    [ text : { Line.text, Line.hello },
      start : { ShownStart[name] : name \in DOMAIN ShownStart },
      duration : { IntNum(3) } ]

FormatTranscriptForDisplay ==
    /\ display = Null
    /\ display' = formatTranscriptForDisplay(shown)
    /\ UNCHANGED << shown, dedupVars, orchVars, parseVars, simVars,
                    ytdlpVars, apiVars, histVars >>

InitDisplay ==
    /\ OrchIdle
    /\ ytdlpPath = FALSE
    /\ DedupIdle
    /\ ParseIdle
    /\ ExtIdleExcept("view")
    /\ shown \in SeqsUpTo(ShownSegments, MaxShown)
    /\ display = Null

SpecDisplay == InitDisplay /\ [][FormatTranscriptForDisplay]_vars

(***************************************************************************)
(* Claims about the display formatter (checked under SpecDisplay).         *)
(***************************************************************************)
\* the line `[M:SS] text` of a segment whose start is `whole` seconds and a
\* fraction of a second: M = whole div 60, SS = whole mod 60 in two digits
DisplayLine(whole, text) ==
    << "[" >> \o Decimal(whole \div 60) \o << ":" >> \o Pad2(whole % 60)
    \o << "]", " " >> \o text

\* C21: the formatter returns one line per segment, in transcript order,
\* of the form [M:SS] text with M = floor(start / 60) and
\* SS = floor(start mod 60) in two digits, for every start >= 0, starts of
\* an hour or more included (the minutes are then 60 or more)
C21_DisplayLines ==
    display # Null =>
        display = join([ k \in 1..Len(shown) |->
                           DisplayLine(shown[k].start.int, shown[k].text) ],
                       Newline)

\* C21 witness: a transcript of two segments has been formatted, one of
\* them starting a fraction of a second after the first hour
C21_Witness ==
    /\ display # Null
    /\ Len(shown) = 2
    /\ shown[1].start.int < 60
    /\ shown[2].start.int >= 3600
    /\ shown[2].start.frac # << >>
    /\ Len(split(display, Newline)) = 2

(***************************************************************************)
(* Further properties of deduplicateTranscript (checked under SpecDedup).  *)
(***************************************************************************)
IsPrefix(p, s) == Len(p) <= Len(s) /\ SubSeq(s, 1, Len(p)) = p

\* C25: the deduplicator is one left-to-right pass: an iteration looks at
\* the current accumulator and the next raw segment only (its effect is the
\* same whatever the output holds), it leaves the entries of the output as
\* they are and at most appends one, and the output at any step is a prefix
\* of the output finally returned
C25_SinglePass ==
    /\ [](dpc \in { "loop", "done" } =>
            IsPrefix(deduplicated, deduplicateTranscript(segments)))
    /\ [][LoopIteration =>
            LET fresh == LoopBody([ currentSegment |-> currentSegment,
                                    deduplicated |-> << >> ], segments[i])
            IN  /\ currentSegment' = fresh.currentSegment
                /\ deduplicated' = deduplicated \o fresh.deduplicated
                /\ Len(fresh.deduplicated) <= 1]_vars

\* C25 witness: the loop is still running on a third segment while the
\* output already holds an entry, and the final output has three entries
C25_Witness ==
    /\ dpc = "loop"
    /\ i = 3
    /\ Len(segments) = 3
    /\ Len(deduplicated) = 1
    /\ Len(deduplicateTranscript(segments)) = 3

\* a is a subsequence of b[from..]: the entries of a occur in b in order
RECURSIVE IsSubsequence(_, _, _)
IsSubsequence(a, b, from) ==
    IF a = << >> THEN TRUE
    ELSE LET hits == { k \in from..Len(b) : b[k] = a[1] }
         IN  hits # {} /\ IsSubsequence(Tail(a), b, First(hits) + 1)

\* C28: the returned output is a subsequence of the input: every entry is
\* an input segment unchanged, in the input's order; it is never longer
\* than the input, non-empty when the input is, empty when the input is
C28_Subsequence ==
    dpc = "done" =>
        /\ IsSubsequence(dresult, segments, 1)
        /\ Len(dresult) <= Len(segments)
        /\ (segments # << >> => dresult # << >>)
        /\ (segments = << >> => dresult = << >>)

\* C28 witness: of three input segments the second was merged away and the
\* first and third returned
C28_Witness ==
    /\ dpc = "done"
    /\ Len(segments) = 3
    /\ dresult = << segments[1], segments[3] >>
    /\ segments[2] # segments[1]
    /\ segments[2] # segments[3]

(***************************************************************************)
(* The closure similarity of deduplicateTranscript, called on its own.     *)
(***************************************************************************)
\* arguments: the texts of the segments, the empty text, a blank text and
\* texts with a repeated, a leading and a trailing blank
SimTexts ==
    Texts \cup
    { << >>, << " " >>, << "a", " ", "b" >>, << "A", " ", "b" >>,
      << "a", " ", " ", "b" >>, << " ", "a" >>, << "a", " " >>,
      << "b", " ", "x" >> }

Similarity ==
    /\ jaccard = Null
    /\ jaccard' = similarity(textA, textB)
    /\ UNCHANGED << textA, textB, dedupVars, orchVars, parseVars, viewVars,
                    ytdlpVars, apiVars, histVars >>

InitSimilarity ==
    /\ OrchIdle
    /\ ytdlpPath = FALSE
    /\ DedupIdle
    /\ ParseIdle
    /\ ExtIdleExcept("sim")
    /\ textA \in SimTexts
    /\ textB \in SimTexts
    /\ jaccard = Null

SpecSimilarity == InitSimilarity /\ [][Similarity]_vars

(***************************************************************************)
(* Claims about similarity (checked under SpecSimilarity).                 *)
(***************************************************************************)
\* the words of a text: its maximal runs of non-whitespace characters,
\* lower-cased
WordsOf(t) ==
    LET l == toLowerCase(t)
        IsWord(a, b) ==
            /\ a <= b
            /\ \A k \in a..b : ~IsSpace(l[k])
            /\ a = 1 \/ IsSpace(l[a - 1])
            /\ b = Len(l) \/ IsSpace(l[b + 1])
    IN  { SubSeq(l, q[1], q[2]) :
            q \in { p \in (1..Len(l)) \X (1..Len(l)) : IsWord(p[1], p[2]) } }

\* the Jaccard index of two sets as a fraction, 0 for two empty sets
JaccardIndex(A, B) ==
    IF A \cup B = {} THEN << 0, 1 >>
    ELSE << Cardinality(A \cap B), Cardinality(A \cup B) >>

\* C26: similarity returns the Jaccard index of the two texts' sets of
\* lower-cased whitespace-separated words, and 0 when neither text
\* contains a word
C26_Jaccard ==
    jaccard # Null =>
        LET expected == JaccardIndex(WordsOf(textA), WordsOf(textB))
        IN  jaccard[1] * expected[2] = expected[1] * jaccard[2]

(***************************************************************************)
(* The Segment data model on the parsers' output (checked under SpecParse).*)
(***************************************************************************)
\* x is a number >= 0
IsNonNegative(x) == ~x.nan /\ ~x.neg

\* C24: every segment handed back satisfies the Segment data model: its
\* text is non-empty, its start is a number >= 0 and its duration is a
\* number >= 0.  getTranscript returns the segments of a parser as they
\* are, less the ones the deduplicator drops.
C24_SegmentModel ==
    ppc = "done" =>
        \A k \in 1..Len(parsed) :
            /\ parsed[k].text # << >>
            /\ IsNonNegative(parsed[k].start)
            /\ IsNonNegative(parsed[k].duration)

\* the same for one payload: the WebVTT cue 00:00:04.000 --> 00:00:01.000
C24_ReversedCue ==
    (ppc = "done" /\ format = "vtt" /\ payload = Example.vttReversed) =>
        \A k \in 1..Len(parsed) : IsNonNegative(parsed[k].duration)

(***************************************************************************)
(* tryYtDlp with its temp directory: two requests side by side.  The       *)
(* yt-dlp process of a request writes subtitle files named after the       *)
(* output template <videoId>.<language>.<extension> while it runs; the     *)
(* statements after the await (readdirSync to unlinkSync) are synchronous  *)
(* and run as one step.                                                    *)
(***************************************************************************)
Requests == { "r1", "r2" }

\* identifiers extractVideoId can hand to tryYtDlp: any non-empty run of
\* characters other than & ? # and line break
VideoIds == { << "v", "1" >>, << "v", "2" >>, << "v", "1", "0" >> }

\* the files yt-dlp can write for a video under --sub-langs "en.*"
SubtitleNames(id) ==
    { id \o << ".", "e", "n", ".", "v", "t", "t" >>,
      id \o << ".", "e", "n", "-", "o", "r", "i", "g", ".", "v", "t", "t" >>,
      id \o << ".", "e", "n", ".", "s", "r", "t" >> }

\* String.prototype.endsWith
endsWith(s, suffix) ==
    /\ Len(suffix) <= Len(s)
    /\ SubSeq(s, Len(s) - Len(suffix) + 1, Len(s)) = suffix

\* the call: the command is built and started, the request awaits it
TryYtDlp ==
    \E r \in Requests :
        /\ ypc[r] = "idle"
        /\ ypc' = [ ypc EXCEPT ![r] = "exec" ]
        /\ UNCHANGED << tempDir, yvideo, youtcome, ytouched, dedupVars,
                        orchVars, parseVars, viewVars, simVars, apiVars,
                        histVars >>

\* the running process writes one subtitle file of its video
YtDlpWrites ==
    \E r \in Requests :
        /\ ypc[r] = "exec"
        /\ \E name \in SubtitleNames(yvideo[r]) :
            /\ \A f \in tempDir : f.name # name
            /\ tempDir' = tempDir \cup
                    { [ name |-> name, video |-> yvideo[r],
                        content |-> IF endsWith(name, << ".", "v", "t", "t" >>)
                                    THEN Example.vtt ELSE Example.srt ] }
        /\ UNCHANGED << ypc, yvideo, youtcome, ytouched, dedupVars, orchVars,
                        parseVars, viewVars, simVars, apiVars, histVars >>

\* the process ends and the request resumes: a failed command rejects;
\* else the directory is listed, the first entry that includes the video
\* identifier and ends in .vtt or .srt (in the order readdirSync happens to
\* list the entries) is read, parsed and unlinked
YtDlpExits ==
    \E r \in Requests, failed \in BOOLEAN :
        /\ ypc[r] = "exec"
        /\ ypc' = [ ypc EXCEPT ![r] = "done" ]
        /\ LET files == { f \in tempDir :
                            /\ includes(f.name, yvideo[r])
                            /\ \/ endsWith(f.name, << ".", "v", "t", "t" >>)
                               \/ endsWith(f.name, << ".", "s", "r", "t" >>) }
           IN  IF failed
               THEN /\ youtcome' = [ youtcome EXCEPT ![r] =
                            Rejected("yt-dlp failed: Command failed") ]
                    /\ UNCHANGED << tempDir, ytouched >>
               ELSE IF files = {}
               THEN /\ youtcome' = [ youtcome EXCEPT ![r] =
                            Rejected("yt-dlp failed: No subtitle file found") ]
                    /\ UNCHANGED << tempDir, ytouched >>
               ELSE \E subtitleFile \in files :
                    LET segs == IF endsWith(subtitleFile.name,
                                            << ".", "v", "t", "t" >>)
                                THEN parseVttContent(subtitleFile.content)
                                ELSE parseSrtContent(subtitleFile.content)
                    IN  /\ tempDir' = tempDir \ { subtitleFile }
                        /\ ytouched' = [ ytouched EXCEPT ![r] = { subtitleFile } ]
                        /\ youtcome' = [ youtcome EXCEPT ![r] = Resolved(segs) ]
        /\ UNCHANGED << yvideo, dedupVars, orchVars, parseVars, viewVars,
                        simVars, apiVars, histVars >>

InitYtDlp ==
    /\ OrchIdle
    /\ ytdlpPath = TRUE
    /\ DedupIdle
    /\ ParseIdle
    /\ ExtIdleExcept("ytdlp")
    /\ tempDir = {}
    /\ ypc = [ r \in Requests |-> "idle" ]
    /\ yvideo \in [ Requests -> VideoIds ]
    /\ youtcome = [ r \in Requests |-> Null ]
    /\ ytouched = [ r \in Requests |-> {} ]

NextYtDlp ==
    \/ TryYtDlp
    \/ YtDlpWrites
    \/ YtDlpExits

SpecYtDlp == InitYtDlp /\ [][NextYtDlp]_vars

(***************************************************************************)
(* Claims about the temp directory (checked under SpecYtDlp).              *)
(***************************************************************************)
\* C22: two concurrent requests for different video identifiers that both
\* reach the yt-dlp method never interfere through the temp directory: a
\* request never reads, parses or deletes a subtitle file written for the
\* other request's video
C22_NoInterference ==
    yvideo["r1"] # yvideo["r2"] =>
        \A r \in Requests : \A f \in ytouched[r] : f.video = yvideo[r]

\* C27: after tryYtDlp has finished for a video, by returning segments or
\* by throwing, no subtitle file written for that video is left in the
\* temp directory (no other request for the same video being under way)
C27_NothingLeft ==
    \A r \in Requests :
        (/\ ypc[r] = "done"
         /\ \A o \in Requests \ { r } : ypc[o] = "idle")
            => \A f \in tempDir : f.video # yvideo[r]

(***************************************************************************)
(* POST /api/analyze (backend/src/index.ts): one request.  The handler     *)
(* awaits getTranscript, whose steps are the actions of Spec, then the two *)
(* calls of the AI service.                                                *)
(***************************************************************************)
\* the characters of the messages getTranscript throws
CharsOf(message) ==
    IF message = InvalidUrlMessage
    THEN << "I", "n", "v", "a", "l", "i", "d", " ", "Y", "o", "u", "T",
            "u", "b", "e", " ", "U", "R", "L" >>
    ELSE << "N", "o", " ", "t", "r", "a", "n", "s", "c", "r", "i", "p",
            "t", " ", "a", "v", "a", "i", "l", "a", "b", "l", "e", " ",
            "f", "o", "r", " ", "t", "h", "i", "s", " ", "v", "i", "d",
            "e", "o", ".", " ", "T", "h", "e", " ", "v", "i", "d", "e",
            "o", " ", "m", "a", "y", " ", "n", "o", "t", " ", "h", "a",
            "v", "e", " ", "c", "a", "p", "t", "i", "o", "n", "s", " ",
            "e", "n", "a", "b", "l", "e", "d", "." >>

\* the words the handler looks for in the message
Keyword ==
    [ invalid |-> << "I", "n", "v", "a", "l", "i", "d", " ", "Y", "o", "u", "T",
            "u", "b", "e", " ", "U", "R", "L" >>,
      unavailable |-> << "u", "n", "a", "v", "a", "i", "l", "a", "b",
                         "l", "e" >>,
      available |-> << "a", "v", "a", "i", "l", "a", "b", "l", "e" >>,
      private |-> << "p", "r", "i", "v", "a", "t", "e" >>,
      transcript |-> << "t", "r", "a", "n", "s", "c", "r", "i", "p", "t" >>,
      captions |-> << "c", "a", "p", "t", "i", "o", "n", "s" >> ]

ErrorBody(status, code) ==
    [ status |-> status, success |-> FALSE, code |-> code,
      transcript |-> << >>, aiAnalysis |-> Null, socialMediaPosts |-> Null,
      aiError |-> Null ]

\* faulty variant: the second test looks for 'available'
ErrorResponseAvailable(errorMessage) ==
    IF includes(errorMessage, Keyword.invalid)
    THEN ErrorBody(400, "INVALID_URL")
    ELSE IF \/ includes(errorMessage, Keyword.available)
            \/ includes(errorMessage, Keyword.private)
    THEN ErrorBody(404, "VIDEO_UNAVAILABLE")
    ELSE IF \/ includes(errorMessage, Keyword.transcript)
            \/ includes(errorMessage, Keyword.captions)
    THEN ErrorBody(422, "NO_TRANSCRIPT")
    ELSE ErrorBody(500, "PROCESSING_ERROR")

\* the outer catch block: the response chosen from the error message
ErrorResponse(errorMessage) ==
    IF includes(errorMessage, Keyword.invalid)
    THEN ErrorBody(400, "INVALID_URL")
    ELSE IF \/ includes(errorMessage, Keyword.unavailable)
            \/ includes(errorMessage, Keyword.private)
    THEN ErrorBody(404, "VIDEO_UNAVAILABLE")
    ELSE IF \/ includes(errorMessage, Keyword.transcript)
            \/ includes(errorMessage, Keyword.captions)
    THEN ErrorBody(422, "NO_TRANSCRIPT")
    ELSE ErrorBody(500, "PROCESSING_ERROR")

\* res.json({ success: true, data: ... }) with the locals as they are
SuccessResponse(analysis, posts, message) ==
    [ status |-> 200, success |-> TRUE, code |-> Null,
      transcript |-> result.transcript, aiAnalysis |-> analysis,
      socialMediaPosts |-> posts, aiError |-> message ]

\* how a call of the AI service settles: it resolves with a value, or
\* rejects; analyzeTranscript resolves with whatever JSON the model
\* answered, which may lack keyThemes
AiOutcomes ==
    [ analyzeTranscript |->
        { [ threw |-> FALSE, value |-> "analysis", wellFormed |-> TRUE ],
          [ threw |-> FALSE, value |-> "analysis without keyThemes",
            wellFormed |-> FALSE ],
          [ threw |-> TRUE, value |-> "Claude AI analysis failed: Unknown error",
            wellFormed |-> FALSE ] },
      generateSocialMediaPosts |->
        { [ threw |-> FALSE, value |-> "posts", wellFormed |-> TRUE ],
          [ threw |-> TRUE,
            value |-> "Failed to generate social media posts: Unknown error",
            wellFormed |-> FALSE ] } ]

\* the request carries no url: the handler answers before any call
AnalyzeWithoutUrl ==
    /\ apc = "request"
    /\ pc = "idle"
    /\ response' = ErrorBody(400, "MISSING_URL")
    /\ apc' = "responded"
    /\ UNCHANGED << aiAnalysis, socialPosts, aiError, aiFailed, dedupVars,
                    orchVars, parseVars, viewVars, simVars, ytdlpVars,
                    histVars >>

\* the await of getTranscript is over: a thrown error goes to the outer
\* catch block; a returned VideoInfo leads to the call of analyzeTranscript
GetTranscriptSettled ==
    /\ apc = "request"
    /\ pc \in { "thrown", "returned" }
    /\ IF pc = "thrown"
       THEN /\ response' = ErrorResponse(CharsOf(error))
            /\ apc' = "responded"
       ELSE /\ apc' = "analyzeTranscript"
            /\ UNCHANGED response
    /\ UNCHANGED << aiAnalysis, socialPosts, aiError, aiFailed, dedupVars,
                    orchVars, parseVars, viewVars, simVars, ytdlpVars,
                    histVars >>

\* the await of analyzeTranscript is over: a rejection, or a value whose
\* keyThemes the log statement cannot read, goes to the inner catch block
\* and the response is sent; else generateSocialMediaPosts is called
AnalyzeTranscriptSettled ==
    /\ apc = "analyzeTranscript"
    /\ \E o \in AiOutcomes.analyzeTranscript :
        IF o.threw
        THEN /\ aiError' = o.value
             /\ aiFailed' = "analyzeTranscript"
             /\ response' = SuccessResponse(aiAnalysis, socialPosts, o.value)
             /\ apc' = "responded"
             /\ UNCHANGED aiAnalysis
        ELSE IF ~o.wellFormed
        THEN /\ aiAnalysis' = o.value
             /\ aiError' = "Cannot read properties of undefined"
             /\ aiFailed' = "console.log"
             /\ response' = SuccessResponse(o.value, socialPosts, aiError')
             /\ apc' = "responded"
        ELSE /\ aiAnalysis' = o.value
             /\ apc' = "generateSocialMediaPosts"
             /\ UNCHANGED << aiError, aiFailed, response >>
    /\ UNCHANGED << socialPosts, dedupVars, orchVars, parseVars, viewVars,
                    simVars, ytdlpVars, histVars >>

\* faulty variant: a rejection of generateSocialMediaPosts reaches the
\* outer catch block
GenerateSocialMediaPostsUncaught ==
    /\ apc = "generateSocialMediaPosts"
    /\ \E o \in AiOutcomes.generateSocialMediaPosts :
        IF o.threw
        THEN /\ aiFailed' = "generateSocialMediaPosts"
             /\ response' = ErrorBody(500, "PROCESSING_ERROR")
             /\ UNCHANGED << socialPosts, aiError >>
        ELSE /\ socialPosts' = o.value
             /\ response' = SuccessResponse(aiAnalysis, o.value, aiError)
             /\ UNCHANGED << aiError, aiFailed >>
    /\ apc' = "responded"
    /\ UNCHANGED << aiAnalysis, dedupVars, orchVars, parseVars, viewVars,
                    simVars, ytdlpVars, histVars >>

\* the await of generateSocialMediaPosts is over; the response is sent
GenerateSocialMediaPostsSettled ==
    /\ apc = "generateSocialMediaPosts"
    /\ \E o \in AiOutcomes.generateSocialMediaPosts :
        IF o.threw
        THEN /\ aiError' = o.value
             /\ aiFailed' = "generateSocialMediaPosts"
             /\ response' = SuccessResponse(aiAnalysis, socialPosts, o.value)
             /\ UNCHANGED socialPosts
        ELSE /\ socialPosts' = o.value
             /\ response' = SuccessResponse(aiAnalysis, o.value, aiError)
             /\ UNCHANGED << aiError, aiFailed >>
    /\ apc' = "responded"
    /\ UNCHANGED << aiAnalysis, dedupVars, orchVars, parseVars, viewVars,
                    simVars, ytdlpVars, histVars >>

InitApi ==
    /\ OrchIdle
    /\ ytdlpPath \in BOOLEAN
    /\ DedupIdle
    /\ ParseIdle
    /\ ExtIdleExcept("api")
    /\ apc = "request"
    /\ aiAnalysis = Null
    /\ socialPosts = Null
    /\ aiError = Null
    /\ response = Null
    /\ aiFailed = Null

NextApi ==
    \/ apc = "request" /\ Next
    \/ AnalyzeWithoutUrl
    \/ GetTranscriptSettled
    \/ AnalyzeTranscriptSettled
    \/ GenerateSocialMediaPostsSettled

SpecApi == InitApi /\ [][NextApi]_vars

(***************************************************************************)
(* Claims about POST /api/analyze (checked under SpecApi).                 *)
(***************************************************************************)
\* C23: the terminal extraction failure and the invalid-input error are
\* told apart at the API: a URL in which extractVideoId finds no video
\* identifier is answered with HTTP 400 and code INVALID_URL, the
\* exhaustion of all extraction methods with HTTP 422 and code
\* NO_TRANSCRIPT, and neither is reported with the other's code
C23_ErrorsDistinguished ==
    (apc = "responded" /\ pc = "thrown") =>
        /\ videoId = Null =>
            response.status = 400 /\ response.code = "INVALID_URL"
        /\ AllMethodsFailed =>
            response.status = 422 /\ response.code = "NO_TRANSCRIPT"
        /\ videoId = Null \/ AllMethodsFailed
        /\ ~(videoId = Null /\ AllMethodsFailed)

\* C23 witness: the response to a request whose three extraction methods
\* all failed
C23_Witness ==
    /\ apc = "responded"
    /\ pc = "thrown"
    /\ AllMethodsFailed
    /\ ytdlpPath
    /\ response.code = "NO_TRANSCRIPT"

MAX_HISTORY_ITEMS == 50

\* saves that reach localStorage.setItem in one run
MaxSaves == 52

\* calls other than the save of a video never saved before in one run
MaxCalls == 1

\* getHistory: the stored list, the empty list when nothing is stored
getHistory == IF stored.present THEN stored.items ELSE << >>

\* Array.prototype.findIndex on the videoId (1-based, 0 for -1)
findIndex(existingHistory, v) ==
    LET hits == { k \in 1..Len(existingHistory) :
                    existingHistory[k].videoId = v }
    IN  IF hits = {} THEN 0 ELSE First(hits)

\* faulty variant: the list is not cut to MAX_HISTORY_ITEMS
saveToHistoryUncut(existingHistory, newItem) ==
    LET existingIndex == findIndex(existingHistory, newItem.videoId)
    IN  IF existingIndex # 0
        THEN << newItem >> \o SubSeq(existingHistory, 1, existingIndex - 1)
             \o SubSeq(existingHistory, existingIndex + 1, Len(existingHistory))
        ELSE << newItem >> \o existingHistory

\* the list saveToHistory writes
saveToHistory(existingHistory, newItem) ==
    LET existingIndex == findIndex(existingHistory, newItem.videoId)
        updatedHistory ==
            IF existingIndex # 0
            THEN << newItem >> \o SubSeq(existingHistory, 1, existingIndex - 1)
                 \o SubSeq(existingHistory, existingIndex + 1,
                           Len(existingHistory))
            ELSE << newItem >> \o existingHistory
    IN  IF Len(updatedHistory) > MAX_HISTORY_ITEMS
        THEN SubSeq(updatedHistory, 1, MAX_HISTORY_ITEMS)
        ELSE updatedHistory

\* the number of the latest save
SavesMade == lastSaved.id

\* saveToHistory of a video never saved before, of the video stored first
\* or of the video stored last; localStorage.setItem may throw (quota), and
\* the catch block then leaves the storage as it was
SaveToHistory ==
    /\ SavesMade < MaxSaves
    /\ \E known \in { 0, 1, Len(getHistory) }, written \in BOOLEAN :
        /\ known # 0 => known \in 1..Len(getHistory) /\ calls < MaxCalls
        /\ LET newItem ==
                [ id |-> SavesMade + 1,
                  videoId |-> IF known = 0 THEN SavesMade + 1
                              ELSE getHistory[known].videoId ]
           IN  IF written
               THEN /\ stored' = [ present |-> TRUE,
                                   items |-> saveToHistory(getHistory, newItem) ]
                    /\ lastSaved' = newItem
                    /\ calls' = IF known = 0 THEN calls ELSE calls + 1
               ELSE UNCHANGED << stored, lastSaved, calls >>
    /\ UNCHANGED << dedupVars, orchVars, parseVars, viewVars, simVars,
                    ytdlpVars, apiVars >>

\* removeFromHistory of the id stored first, of the id stored last, or of
\* an id that is not stored
RemoveFromHistory ==
    /\ calls < MaxCalls
    /\ \E id \in { getHistory[k].id :
                    k \in { 1, Len(getHistory) } \cap (1..Len(getHistory)) }
                 \cup { 0 }, written \in BOOLEAN :
        LET Kept(item) == item.id # id
        IN  IF written
            THEN /\ stored' = [ present |-> TRUE,
                                items |-> SelectSeq(getHistory, Kept) ]
                 /\ calls' = calls + 1
            ELSE UNCHANGED << stored, calls >>
    /\ UNCHANGED << lastSaved, dedupVars, orchVars, parseVars, viewVars,
                    simVars, ytdlpVars, apiVars >>

\* clearHistory: the key is removed
ClearHistory ==
    /\ calls < MaxCalls
    /\ stored' = [ present |-> FALSE, items |-> << >> ]
    /\ calls' = calls + 1
    /\ UNCHANGED << lastSaved, dedupVars, orchVars, parseVars, viewVars,
                    simVars, ytdlpVars, apiVars >>

InitHistory ==
    /\ OrchIdle
    /\ ytdlpPath = FALSE
    /\ DedupIdle
    /\ ParseIdle
    /\ ExtIdleExcept("hist")
    /\ stored = [ present |-> FALSE, items |-> << >> ]
    /\ lastSaved = [ id |-> 0, videoId |-> 0 ]
    /\ calls = 0

NextHistory ==
    \/ SaveToHistory
    \/ RemoveFromHistory
    \/ ClearHistory

SpecHistory == InitHistory /\ [][NextHistory]_vars

(***************************************************************************)
(* Claims about the history (checked under SpecHistory).                   *)
(***************************************************************************)
\* at most MAX_HISTORY_ITEMS items, at most one item per videoId
CappedAndUnique ==
    /\ Len(getHistory) <= 50
    /\ Cardinality({ getHistory[k].videoId : k \in 1..Len(getHistory) })
        = Len(getHistory)

\* C30 as stated: after any sequence of saveToHistory, removeFromHistory
\* and clearHistory calls from an empty history, the stored history has at
\* most 50 items and at most one item per videoId, and the item written by
\* the most recent successful saveToHistory is first in the list
C30_HistoryInvariant ==
    /\ CappedAndUnique
    /\ lastSaved.id # 0 =>
        getHistory # << >> /\ getHistory[1] = lastSaved

\* C30 amended: the history has at most 50 items and at most one item per
\* videoId, and the item written by the most recent successful
\* saveToHistory is first in the list for as long as it is stored, that is
\* until removeFromHistory is called with its id or clearHistory is called
C30_FirstWhileStored ==
    /\ CappedAndUnique
    /\ \A k \in 1..Len(getHistory) : getHistory[k] = lastSaved => k = 1

\* C30 witness: the history is full, the video stored last has just been
\* saved again and its item moved to the front
C30_Witness ==
    /\ Len(getHistory) = 50
    /\ getHistory[1] = lastSaved
    /\ lastSaved.id > lastSaved.videoId
    /\ calls > 0

=============================================================================
